---- MODULE Spec2Model ----
(***************************************************************************)
(* mkfat: FAT12/16/32 formatter.                                           *)
(*                                                                         *)
(* Two specifications share this module:                                   *)
(*   Spec     the geometry planner of the format command                   *)
(*            (presetForSizeBytes, the override and total-sector           *)
(*            assignment, computeLayout iteration by iteration);           *)
(*   SpecRun  one run of the format command: validation, planning, UI,     *)
(*            target open, the write phases, the stop flag, the signal     *)
(*            handler goroutine and the process exit.                      *)
(*                                                                         *)
(* uint32 values are pairs <<hi, lo>> of 16-bit halves, so that the        *)
(* arithmetic of computeLayout wraps modulo 2^32 exactly as in the Go      *)
(* code.  Sizes are kept in 512-byte sectors: the format command rejects   *)
(* every size that is not a multiple of 512 (main.go:1094) and every size  *)
(* threshold of presetForSizeBytes is a multiple of 512.                   *)
(***************************************************************************)
EXTENDS Integers, Sequences, FiniteSets, TLC

(* ------------------------------ bounds ------------------------------- *)

\* sizes 0..MaxSmallSectors (in sectors) are all enumerated by the planner
MaxSmallSectors == 70
\* size (in sectors) of the largest small FAT12 image a run formats: its data
\* area is MaxRunSectors - 35 sectors long
MaxRunSectors == 38
\* at most this many sectors of a target fail the bad-sector check
MaxBadSectors == 2
\* the longest progress map of the marking runs
MaxMarkSectors == 4
\* the longest image img2dev copies, in 512-byte blocks
MaxCopyBlocks == 3
\* the longest volume label and OEM string handed to the boot-sector builders
MaxLabelLen == 12
MaxOEMLen == 9

(* -------------------------- uint32 arithmetic ------------------------ *)

W16 == 65536

\* the uint32 with value n, for 0 <= n < 2^31
U(n) == <<n \div W16, n % W16>>

Z32 == <<0, 0>>

Add32(a, b) ==
    LET lo == a[2] + b[2]
        hi == a[1] + b[1] + (lo \div W16)
    IN  <<hi % W16, lo % W16>>

Sub32(a, b) ==
    LET lo == a[2] - b[2]
        borrow == IF lo < 0 THEN 1 ELSE 0
    IN  <<(a[1] - b[1] - borrow + 2 * W16) % W16, (lo + W16) % W16>>

\* a * k modulo 2^32, for 0 <= k < 32768
MulK32(a, k) ==
    LET lo == a[2] * k
        hi == a[1] * k + (lo \div W16)
    IN  <<hi % W16, lo % W16>>

\* a / d (truncated), for 1 <= d < 32768
DivK32(a, d) ==
    LET qhi == a[1] \div d
        r   == a[1] % d
        t   == r * W16 + a[2]
    IN  <<qhi, t \div d>>

Lt32(a, b) == a[1] < b[1] \/ (a[1] = b[1] /\ a[2] < b[2])
Le32(a, b) == a = b \/ Lt32(a, b)

\* uint16(x) of a uint32 x
Lo16(a) == a[2]

(* unbounded naturals as pairs <<hi, lo>> with lo < 2^16 and hi unbounded:
   used only to state properties "as unbounded integers" *)
WAdd(a, b) ==
    LET lo == a[2] + b[2]
    IN  <<a[1] + b[1] + (lo \div W16), lo % W16>>
WMulK(a, k) ==
    LET lo == a[2] * k
    IN  <<a[1] * k + (lo \div W16), lo % W16>>
WLe(a, b) == a[1] < b[1] \/ (a[1] = b[1] /\ a[2] <= b[2])

(* ------------------------------ FAT types ---------------------------- *)

FAT12 == 12
FAT16 == 16
FAT32 == 32
FATTypes == {FAT12, FAT16, FAT32}

\* sizes of presetForSizeBytes, in sectors
Sec360K  == 720
Sec720K  == 1440
Sec1200K == 2400
Sec1440K == 2880
Sec2880K == 5760
Sec4M    == 8192
Sec8M    == 16384
Sec16M   == 32768
Sec32M   == 65536
Sec8G    == 16777216
Sec32G   == 67108864

\* geom{BytesPerSector: 512, ReservedSectors: 1, NumFATs: 2, Media: 0xF0, NumHeads: 2}
geom0 ==
    [BytesPerSector |-> 512, SectorsPerCluster |-> 0, ReservedSectors |-> 1,
     NumFATs |-> 2, RootEntries |-> 0, TotalSectors16 |-> 0, Media |-> 240,
     SectorsPerFAT16 |-> 0, SectorsPerTrack |-> 0, NumHeads |-> 2,
     HiddenSectors |-> Z32, TotalSectors32 |-> Z32, SectorsPerFAT32 |-> Z32,
     RootCluster |-> Z32, FSInfoSector |-> 0, BackupBootSector |-> 0]

\* "if ts <= 0xFFFF { g.TotalSectors16 = uint16(ts) } else { g.TotalSectors32 = ts }"
setTotalIfSmall(g, ts) ==
    IF Le32(ts, <<0, 65535>>)
    THEN [g EXCEPT !.TotalSectors16 = Lo16(ts)]
    ELSE [g EXCEPT !.TotalSectors32 = ts]

floppy(g, spt, root, spc, size, spf) ==
    [g EXCEPT !.SectorsPerTrack = spt, !.RootEntries = root,
              !.SectorsPerCluster = spc, !.TotalSectors16 = size % W16,
              !.SectorsPerFAT16 = spf]

\* presetForSizeBytes(ft, size): size in sectors, 0 <= size < 2^31
presetForSizeBytes(ft, size) ==
    LET g == geom0 IN
    CASE size = Sec360K  -> [g |-> floppy(g, 9, 64, 2, size, 2), err |-> ""]
      [] size = Sec720K  -> [g |-> floppy(g, 9, 112, 2, size, 3), err |-> ""]
      [] size = Sec1200K -> [g |-> floppy(g, 15, 224, 1, size, 7), err |-> ""]
      [] size = Sec1440K -> [g |-> floppy(g, 18, 224, 1, size, 9), err |-> ""]
      [] size = Sec2880K ->
            [g |-> CASE ft = FAT12 -> floppy(g, 36, 240, 1, size, 9)
                     [] ft = FAT16 -> floppy(g, 36, 240, 2, size, 18)
                     [] OTHER -> floppy(g, 36, 240, 0, size, 0),
             err |-> ""]
      [] OTHER ->
         IF ft = FAT12 /\ size < Sec16M
         THEN [g |-> [setTotalIfSmall(g, U(size)) EXCEPT
                         !.SectorsPerTrack = 32, !.RootEntries = 512,
                         !.SectorsPerCluster = 1, !.SectorsPerFAT16 = 16],
               err |-> ""]
         ELSE IF ft = FAT16 /\ size <= Sec32M
         THEN [g |-> [setTotalIfSmall(g, U(size)) EXCEPT
                         !.SectorsPerTrack = 32, !.RootEntries = 512,
                         !.SectorsPerCluster =
                             IF size <= Sec4M THEN 2
                             ELSE IF size <= Sec8M THEN 4
                             ELSE IF size <= Sec16M THEN 8 ELSE 16,
                         !.SectorsPerFAT16 = 32],
               err |-> ""]
         ELSE IF ft = FAT32
         THEN [g |-> [setTotalIfSmall(g, U(size)) EXCEPT
                         !.Media = 248, !.RootEntries = 0,
                         !.ReservedSectors = 32, !.FSInfoSector = 1,
                         !.BackupBootSector = 6, !.RootCluster = U(2),
                         !.SectorsPerTrack = 63, !.NumHeads = 255,
                         !.SectorsPerCluster =
                             IF size <= Sec8G THEN 8
                             ELSE IF size <= Sec32G THEN 16 ELSE 32],
               err |-> ""]
         ELSE [g |-> g, err |-> "unsupported size"]

\* format RunE, lines 1114-1138: heads/spt override and total-sector assignment
applyOverride(g0, size, heads, spt, tracks) ==
    LET g1 == IF heads > 0 THEN [g0 EXCEPT !.NumHeads = heads % W16] ELSE g0
        g2 == IF spt > 0 THEN [g1 EXCEPT !.SectorsPerTrack = spt % W16] ELSE g1
        total == IF tracks > 0
                 THEN MulK32(MulK32(U(tracks), g2.NumHeads), g2.SectorsPerTrack)
                 ELSE U(size)
    IN  IF Le32(total, <<0, 65535>>)
        THEN [g2 EXCEPT !.TotalSectors16 = Lo16(total), !.TotalSectors32 = Z32]
        ELSE [g2 EXCEPT !.TotalSectors16 = 0, !.TotalSectors32 = total]

(* ----------------------------- computeLayout ------------------------- *)

\* line 232
rootDirSectorsOf(g) ==
    DivK32(Add32(MulK32(U(g.RootEntries), 32), U((g.BytesPerSector - 1) % W16)),
           g.BytesPerSector)

\* lines 233-238
totalSectorsOf(g) ==
    IF g.TotalSectors16 # 0 THEN U(g.TotalSectors16) ELSE g.TotalSectors32

\* sectors needed for clusters+2 entries of the variant's width (lines 254-256, 275-283)
needFor(ft, g, clusters) ==
    LET entries == Add32(clusters, U(2))
        neededBytes ==
            CASE ft = FAT32 -> MulK32(entries, 4)
              [] ft = FAT12 -> DivK32(Add32(MulK32(entries, 3), U(1)), 2)
              [] OTHER      -> MulK32(entries, 2)
    IN  DivK32(Sub32(Add32(neededBytes, U(g.BytesPerSector)), U(1)), g.BytesPerSector)

\* the FAT size one iteration evaluates (lines 245-248, 268)
candidateFAT(ft, g) ==
    IF ft = FAT32
    THEN (IF g.SectorsPerFAT32 = Z32 THEN U(1) ELSE g.SectorsPerFAT32)
    ELSE U(g.SectorsPerFAT16)

\* dataSectors of one iteration (lines 249, 269)
dataSectorsOf(ft, g, total, rootDir, fat) ==
    IF ft = FAT32
    THEN Sub32(Sub32(total, U(g.ReservedSectors)), MulK32(fat, g.NumFATs))
    ELSE Sub32(Sub32(Sub32(total, U(g.ReservedSectors)), MulK32(fat, g.NumFATs)), rootDir)

\* "if dataSectors <= 0" on a uint32 (lines 250, 270)
dataSectorsBad(ds) == Le32(ds, Z32)

\* one iteration of the FAT-size loop: lines 244-261 (FAT32), 267-288 (FAT12/16).
\* out: "error" (return inside the loop), "break", "continue"
layoutBody(ft, g, total, rootDir) ==
    LET fat == candidateFAT(ft, g)
        ds  == dataSectorsOf(ft, g, total, rootDir, fat)
    IN  IF dataSectorsBad(ds)
        THEN [out |-> "error", g |-> g, fatSectors |-> fat, dataSectors |-> ds,
              clusters |-> Z32]
        ELSE LET cl   == DivK32(ds, g.SectorsPerCluster)
                 need == needFor(ft, g, cl)
             IN  IF need = fat
                 THEN [out |-> "break", g |-> g, fatSectors |-> fat,
                       dataSectors |-> ds, clusters |-> cl]
                 ELSE [out |-> "continue",
                       g |-> IF ft = FAT32
                             THEN [g EXCEPT !.SectorsPerFAT32 = need]
                             ELSE [g EXCEPT !.SectorsPerFAT16 = Lo16(need)],
                       fatSectors |-> fat, dataSectors |-> ds, clusters |-> cl]

\* "for i := 0; i < 8; i++"
LoopBound == 8

\* clustersInvalid without the FAT12 upper limit (the check of line 289 left out)
clustersInvalid_noFAT12Limit(ft, clusters) ==
    CASE ft = FAT32 -> Lt32(clusters, U(65525))
      [] ft = FAT12 -> FALSE
      [] OTHER      -> Lt32(clusters, U(4085)) \/ Lt32(U(65524), clusters)

\* the cluster-count validation after the loop (lines 262-264, 289-294)
clustersInvalid(ft, clusters) ==
    CASE ft = FAT32 -> Lt32(clusters, U(65525))
      [] ft = FAT12 -> Le32(U(4085), clusters)
      [] OTHER      -> Lt32(clusters, U(4085)) \/ Lt32(U(65524), clusters)

\* the values returned after the loop (lines 262-265, 289-295)
layoutReturn(ft, g, rootDir, fatSectors, dataSectors, clusters) ==
    IF clustersInvalid(ft, clusters)
    THEN [err |-> "clusters invalid", g |-> g, fatSecs |-> Z32, rootSecs |-> Z32,
          dataSecs |-> Z32, clusters |-> Z32]
    ELSE IF ft = FAT32
    THEN [err |-> "", g |-> g, fatSecs |-> g.SectorsPerFAT32, rootSecs |-> Z32,
          dataSecs |-> dataSectors, clusters |-> clusters]
    ELSE [err |-> "", g |-> g, fatSecs |-> fatSectors, rootSecs |-> rootDir,
          dataSecs |-> dataSectors, clusters |-> clusters]

layoutError(g, msg) ==
    [err |-> msg, g |-> g, fatSecs |-> Z32, rootSecs |-> Z32, dataSecs |-> Z32,
     clusters |-> Z32]

\* "if ft == FAT32 { rootDirSectors = 0 ..." (lines 239-240)
layoutRootDir(ft, g) == IF ft = FAT32 THEN Z32 ELSE rootDirSectorsOf(g)

\* "if g.ReservedSectors < 32" (lines 241-243)
reservedTooSmall(ft, g) == ft = FAT32 /\ g.ReservedSectors < 32

RECURSIVE layoutLoop(_, _, _, _, _, _)
layoutLoop(ft, g, total, rootDir, i, loc) ==
    IF i >= LoopBound
    THEN layoutReturn(ft, g, rootDir, loc.fatSectors, loc.dataSectors, loc.clusters)
    ELSE LET b == layoutBody(ft, g, total, rootDir)
         IN  CASE b.out = "error" -> layoutError(g, "dataSectors<=0")
               [] b.out = "break" ->
                    layoutReturn(ft, b.g, rootDir, b.fatSectors, b.dataSectors, b.clusters)
               [] OTHER -> layoutLoop(ft, b.g, total, rootDir, i + 1,
                                      [fatSectors |-> b.fatSectors,
                                       dataSectors |-> b.dataSectors,
                                       clusters |-> b.clusters])

\* computeLayout(ft, &g): the whole function, g is the updated geometry
computeLayout(ft, g) ==
    IF reservedTooSmall(ft, g)
    THEN layoutError(g, "FAT32 requires >= 32 reserved sectors")
    ELSE layoutLoop(ft, g, totalSectorsOf(g), layoutRootDir(ft, g), 0,
                    [fatSectors |-> Z32, dataSectors |-> Z32, clusters |-> Z32])

(* ------------------------ boot-sector text fields -------------------- *)

\* ASCII strings as sequences of byte values
Space == 32
DefaultOEM == <<69, 65, 82, 77, 75, 70, 65, 84>>            \* "EARMKFAT"
NoName == <<78, 79, 32, 78, 65, 77, 69, 32, 32, 32, 32>>    \* "NO NAME    "
StrFAT12 == <<70, 65, 84, 49, 50, 32, 32, 32>>              \* "FAT12   "
StrFAT16 == <<70, 65, 84, 49, 54, 32, 32, 32>>              \* "FAT16   "
StrFAT32 == <<70, 65, 84, 51, 50, 32, 32, 32>>              \* "FAT32   "
StrTESTDISK == <<84, 69, 83, 84, 68, 73, 83, 75>>           \* "TESTDISK"

\* padRight(s, n): truncate to n bytes, pad with spaces
padRight(s, n) ==
    [k \in 1..n |-> IF k <= Len(s) THEN s[k] ELSE Space]

\* the OEM field, bytes 3..10 of the boot sector (lines 304-309, 365-370)
oemField(oem) == padRight(IF oem = <<>> THEN DefaultOEM ELSE oem, 8)

\* the volume-label field of the boot sector (lines 301-303, 324; 362-364, 393)
labelField(volLabel) == padRight(IF volLabel = <<>> THEN NoName ELSE volLabel, 11)

\* the filesystem-type field (lines 325-329, 394)
fsTypeField(ft) ==
    CASE ft = FAT12 -> StrFAT12
      [] ft = FAT16 -> StrFAT16
      [] OTHER      -> StrFAT32

\* buildRootLabelEntry(label): <<>> is nil; the attribute byte e[11] is index 12 here
buildRootLabelEntry(label) ==
    IF label = <<>>
    THEN <<>>
    ELSE [k \in 1..32 |-> IF k <= 11 THEN padRight(label, 11)[k]
                          ELSE IF k = 12 THEN 8 ELSE 0]

(* ------------------------------ state -------------------------------- *)

VARIABLES
    pc,       \* position of the writer thread (the format command's RunE)
    inp,      \* the geometry inputs: type, size (sectors), heads, spt, tracks
    g,        \* the geometry descriptor
    i,        \* computeLayout: loop counter
    loc,      \* computeLayout: fatSectors, dataSectors, clusters of the last iteration
    ret,      \* what the planner returned: err, fatSecs, rootSecs, dataSecs, clusters
    cfg,      \* the other flags of the format command and the platform
    tgt,      \* the write target: image file or device, its lock and its handle
    ui,       \* the retrodfrg.UI: screen state and the one-shot stop channel
    pt,       \* the progressTracker
    w,        \* locals of the write helpers and of the full-format pass
    wlog,     \* every WriteAt issued so far, in order (chk: for a pattern write of
              \* the bad-sector check, what the check of that sector found)
    sig,      \* the signal-handler goroutine
    proc,     \* the process: value returned by RunE, exit code, warnings
    sec,      \* what a sector builder returned last: byte values, <<>> before
    cp,       \* copyImageToDevice: its locals, its two files and its output
    call,     \* the arguments of a write helper called on its own
    prep      \* prepareWindowsDevice: argument, locals, system calls, results

planVars == <<i, loc>>
runVars == <<cfg, tgt, ui, pt, w, wlog, sig, proc>>
unitVars == <<sec, cp, call, prep>>
vars == <<pc, inp, g, i, loc, ret, cfg, tgt, ui, pt, w, wlog, sig, proc, sec, cp, call,
          prep>>

\* the flags as cobra initialises them (lines 1513-1529); sizeArg and typeArg
\* stand for the --size and --type strings: given and valid, or how they are bad
cfg0 ==
    [out |-> FALSE, device |-> FALSE, force |-> FALSE, emulate |-> FALSE,
     goos |-> "linux", sizeArg |-> "ok", typeArg |-> "ok", full |-> FALSE,
     sync |-> "track", label |-> <<>>, llf |-> FALSE, oem |-> DefaultOEM,
     cmd |-> "format"]

\* no target yet: "var sink io.WriterAt; var file *os.File" (lines 1281-1282)
tgt0 ==
    [kind |-> "none", state |-> "none", created |-> FALSE, sized |-> FALSE,
     closes |-> 0, vol |-> 0, locks |-> 0, cleanups |-> 0, syncs |-> 0,
     deferred |-> FALSE, probed |-> FALSE, deviceSize |-> 0]

\* no UI yet
ui0 ==
    [state |-> "none", stopped |-> FALSE, deferred |-> FALSE, phasesDone |-> {},
     totalSectors |-> 0, sectorMap |-> {}, written |-> 0, curAbs |-> 0]

\* no tracker yet; marks is the set of indices k with progressMap[k] = true
pt0 == [total |-> 0, marks |-> {}, currentPos |-> 0]

\* wr: sectors written by the running span helper; written, k, bad: the locals
\* written, i and badSectors of the full-format pass; ffErr: what the pass
\* returned; syncs: the file.Sync calls the full-format pass has made
w0 == [wr |-> 0, written |-> 0, k |-> 0, bad |-> <<>>, ffErr |-> "none", syncs |-> 0]

\* retErr: what RunE returned ("none": still running, "nil": success); exit: the
\* exit code (-1: alive); warned: a WARNING was printed; interrupted: a write
\* helper returned ErrInterrupted
proc0 ==
    [retErr |-> "none", exit |-> -1, warned |-> FALSE, interrupted |-> FALSE,
     sizeWarning |-> ""]

\* img2dev not run. inGiven, deviceGiven, force, blockSize: its flags;
\* imageSize: the size of the image file in bytes; src: the image handle;
\* totalCopied: the loop's counter; writes: every dst.Write issued, in order;
\* eof: a Read returned 0 bytes; synced: dst.Sync() succeeded
\* prepareWindowsDevice not called: no path, no handle, no system call made;
\* err: the error returned, "" for nil
prep0 ==
    [path |-> <<>>, volumePath |-> <<>>, volHandle |-> 0, ops |-> <<>>, handle |-> 0,
     err |-> ""]

\* no helper call of its own
call0 == [helper |-> "none", absStart |-> 0, sectors |-> 0]

cp0 ==
    [inGiven |-> FALSE, deviceGiven |-> FALSE, force |-> FALSE, blockSize |-> 0,
     imageSize |-> 0, src |-> "none", totalCopied |-> 0, writes |-> <<>>,
     eof |-> FALSE, synced |-> FALSE]

loc0 == [fatSectors |-> Z32, dataSectors |-> Z32, clusters |-> Z32]
ret0 == [err |-> "none", fatSecs |-> Z32, rootSecs |-> Z32, dataSecs |-> Z32,
         clusters |-> Z32]

(* ------------------------- the planner, stepwise --------------------- *)

FloppySizes == {Sec360K, Sec720K, Sec1200K, Sec1440K, Sec2880K}

\* sizes (in sectors) the planner is run on
PlanSizes ==
    (0..MaxSmallSectors) \cup FloppySizes \cup
    {375, 4142, 8400, Sec8M, Sec16M, 65535, Sec32M, 65537, 525336, 532480,
     1048576, Sec8G, Sec8G + 8, Sec32G, 2 * Sec32G}

\* <<heads, spt, tracks>> overrides; 0 is "not given"
PlanOverrides ==
    {<<0, 0, 0>>, <<2, 18, 80>>, <<0, 0, 1>>, <<16, 63, 1024>>, <<4, 0, 0>>}

PlanInputs ==
    [ft : FATTypes, size : PlanSizes, heads : {o[1] : o \in PlanOverrides},
     spt : {o[2] : o \in PlanOverrides}, tracks : {o[3] : o \in PlanOverrides}]

Init ==
    /\ pc = "preset"
    /\ inp \in {x \in PlanInputs : <<x.heads, x.spt, x.tracks>> \in PlanOverrides}
    /\ g = geom0
    /\ i = 0
    /\ loc = loc0
    /\ ret = ret0
    /\ cfg = cfg0
    /\ tgt = tgt0
    /\ ui = ui0
    /\ pt = pt0
    /\ w = w0
    /\ wlog = <<>>
    /\ sig = "off"
    /\ proc = proc0
    /\ sec = <<>>
    /\ call = call0
    /\ prep = prep0
    /\ cp = cp0

\* format RunE line 1110-1113
Preset ==
    /\ pc = "preset"
    /\ LET p == presetForSizeBytes(inp.ft, inp.size)
       IN  IF p.err # ""
           THEN /\ pc' = "done"
                /\ ret' = [ret0 EXCEPT !.err = p.err]
                /\ g' = g
           ELSE /\ pc' = "override"
                /\ g' = p.g
                /\ ret' = ret
    /\ UNCHANGED <<inp, i, loc>>
    /\ UNCHANGED <<runVars, unitVars>>

\* format RunE lines 1114-1138
Override ==
    /\ pc = "override"
    /\ g' = applyOverride(g, inp.size, inp.heads, inp.spt, inp.tracks)
    /\ pc' = "layout"
    /\ UNCHANGED <<inp, i, loc, ret>>
    /\ UNCHANGED <<runVars, unitVars>>

\* computeLayout lines 232-243
LayoutEnter ==
    /\ pc = "layout"
    /\ IF reservedTooSmall(inp.ft, g)
       THEN /\ pc' = "done"
            /\ ret' = [ret0 EXCEPT !.err = "FAT32 requires >= 32 reserved sectors"]
       ELSE /\ pc' = "loop"
            /\ ret' = ret
    /\ i' = 0
    /\ UNCHANGED <<inp, g, loc>>
    /\ UNCHANGED <<runVars, unitVars>>

\* one iteration of the loop, lines 244-261 / 267-288
LayoutIter ==
    /\ pc = "loop"
    /\ i < LoopBound
    /\ LET b == layoutBody(inp.ft, g, totalSectorsOf(g), layoutRootDir(inp.ft, g))
       IN  /\ loc' = [fatSectors |-> b.fatSectors, dataSectors |-> b.dataSectors,
                      clusters |-> b.clusters]
           /\ g' = b.g
           /\ CASE b.out = "error" ->
                     /\ pc' = "done"
                     /\ ret' = [ret0 EXCEPT !.err = "dataSectors<=0"]
                     /\ i' = i
                [] b.out = "break" ->
                     /\ pc' = "post"
                     /\ ret' = ret
                     /\ i' = i
                [] OTHER ->
                     /\ i' = i + 1
                     /\ pc' = IF i + 1 < LoopBound THEN "loop" ELSE "post"
                     /\ ret' = ret
    /\ UNCHANGED inp
    /\ UNCHANGED <<runVars, unitVars>>

\* the validation and return after the loop, lines 262-265 / 289-295
LayoutFinish ==
    /\ pc = "post"
    /\ LET r == layoutReturn(inp.ft, g, layoutRootDir(inp.ft, g), loc.fatSectors,
                             loc.dataSectors, loc.clusters)
       IN  ret' = [err |-> r.err, fatSecs |-> r.fatSecs, rootSecs |-> r.rootSecs,
                   dataSecs |-> r.dataSecs, clusters |-> r.clusters]
    /\ pc' = "done"
    /\ UNCHANGED <<inp, g, i, loc>>
    /\ UNCHANGED <<runVars, unitVars>>

Next ==
    \/ Preset
    \/ Override
    \/ LayoutEnter
    \/ LayoutIter
    \/ LayoutFinish

Spec == Init /\ [][Next]_vars

(* ===================================================================== *)
(* Properties of the planner (checked under Spec)                        *)
(* ===================================================================== *)

PlanDone == pc = "done"
PlanSuccess == pc = "done" /\ ret.err = ""
NoOverride == inp.heads = 0 /\ inp.spt = 0 /\ inp.tracks = 0

\* reserved + numFATs*fat + rootDir, as an unbounded natural
systemSectorsWide(gg, fat, root) ==
    WAdd(WAdd(U(gg.ReservedSectors), WMulK(fat, gg.NumFATs)), root)

\* C1: whenever planning succeeds, reservedSectors + numFATs*fatSectors +
\* rootDirSectors + dataSectors equals totalSectors as unbounded integers, and
\* rootDirSectors is 0 for FAT32.
C1_LayoutSum ==
    PlanSuccess =>
        /\ WAdd(systemSectorsWide(g, ret.fatSecs, ret.rootSecs), ret.dataSecs)
              = totalSectorsOf(g)
        /\ (inp.ft = FAT32 => ret.rootSecs = Z32)

\* the FAT size the next iteration evaluates leaves no data sector:
\* totalSectors <= reserved + numFATs*fat + rootDir, as unbounded integers
NoDataSectorsLeft ==
    WLe(totalSectorsOf(g),
        systemSectorsWide(g, candidateFAT(inp.ft, g), layoutRootDir(inp.ft, g)))

\* C2: an iteration of computeLayout that evaluates a FAT size with
\* totalSectors <= reserved + numFATs*fat + rootDir returns an error; a negative
\* difference is never carried on through 32-bit wraparound.
C2_NonPositiveDataRejected ==
    [][(pc = "loop" /\ i < LoopBound /\ NoDataSectorsLeft)
          => (pc' = "done" /\ ret'.err # "")]_vars

\* C3: the FAT-size loop runs at most 8 iterations and a successful plan
\* returns a stabilized FAT size: the returned FAT sector count is the number of
\* sectors needed for clusters+2 entries of the returned cluster count.
C3_FixedPointOrError ==
    /\ i <= LoopBound
    /\ (PlanSuccess => ret.fatSecs = needFor(inp.ft, g, ret.clusters))

\* sectors-per-track, root entries, sectors-per-FAT of the historical formats
HistoricalPreset(ft, size) ==
    CASE size = Sec360K  -> <<9, 64, 2>>
      [] size = Sec720K  -> <<9, 112, 3>>
      [] size = Sec1200K -> <<15, 224, 7>>
      [] size = Sec1440K -> <<18, 224, 9>>
      [] OTHER           -> IF ft = FAT12 THEN <<36, 240, 9>> ELSE <<36, 240, 18>>

\* C4: for 360K, 720K, 1.2M, 1.44M, 2.88M and FAT12 or FAT16, planning succeeds
\* and the final geometry has the historical sectors-per-track, root-entry count
\* and sectors-per-FAT.
C4_CanonicalPresets ==
    (PlanDone /\ inp.size \in FloppySizes /\ inp.ft \in {FAT12, FAT16} /\ NoOverride)
        => /\ ret.err = ""
           /\ <<g.SectorsPerTrack, g.RootEntries, g.SectorsPerFAT16>>
                 = HistoricalPreset(inp.ft, inp.size)

\* C5: FAT16, 1,474,560 bytes, label "TESTDISK", no OEM, no overrides: the
\* format succeeds with the default 8-character OEM, type string "FAT16   ",
\* sectorsPerFAT 9, rootEntries 224, clusterCount = dataSectors / sectorsPerCluster
\* and a label entry with attribute byte 0x08.
C5_EndToEndExample ==
    (PlanDone /\ inp.ft = FAT16 /\ inp.size = Sec1440K /\ NoOverride)
        => /\ ret.err = ""
           /\ oemField(<<>>) = DefaultOEM
           /\ fsTypeField(inp.ft) = StrFAT16
           /\ g.SectorsPerFAT16 = 9
           /\ g.RootEntries = 224
           /\ ret.clusters = DivK32(ret.dataSecs, g.SectorsPerCluster)
           /\ buildRootLabelEntry(StrTESTDISK)[12] = 8

\* C6: whenever computeLayout returns success, dataSectors > 0, clusterCount =
\* floor(dataSectors / sectorsPerCluster), clusterCount is in the variant's
\* range (FAT12 < 4085, 4085 <= FAT16 <= 65524, FAT32 >= 65525) and FAT32 has at
\* least 32 reserved sectors.
C6_LayoutInvariants ==
    PlanSuccess =>
        /\ Lt32(Z32, ret.dataSecs)
        /\ ret.clusters = DivK32(ret.dataSecs, g.SectorsPerCluster)
        /\ (inp.ft = FAT12 => Lt32(ret.clusters, U(4085)))
        /\ (inp.ft = FAT16 => Le32(U(4085), ret.clusters) /\ Le32(ret.clusters, U(65524)))
        /\ (inp.ft = FAT32 => Le32(U(65525), ret.clusters) /\ g.ReservedSectors >= 32)

\* a FAT32 plan that succeeded after the FAT size was recomputed at least twice
C6_Witness ==
    /\ PlanSuccess
    /\ inp.ft = FAT32
    /\ i >= 2
    /\ Le32(U(65525), ret.clusters)
    /\ g.ReservedSectors = 32

(* ===================================================================== *)
(* One run of mkfat: format or img2dev (SpecRun)                         *)
(* ===================================================================== *)

\* int64(x) of a uint32 value
ToInt(a) == a[1] * W16 + a[2]

\* "const chunk = 1 << 20" and "const zSize = 1 << 20" bytes, in sectors
ChunkSectors == 2048

Min(a, b) == IF a < b THEN a ELSE b

\* "totalSectors := int64(sz / 512)" (line 1151)
totalSectors == inp.size

\* the absolute ranges of lines 1158-1165
absFAT1 == g.ReservedSectors
\* FAT #2 placed one sector early
absFAT2_oneSectorEarly == absFAT1 + ToInt(ret.fatSecs) - 1
absFAT2 == absFAT1 + ToInt(ret.fatSecs)
absRoot ==
    IF inp.ft # FAT32 THEN g.ReservedSectors + g.NumFATs * ToInt(ret.fatSecs) ELSE -1
absData ==
    g.ReservedSectors + g.NumFATs * ToInt(ret.fatSecs)
        + (IF inp.ft # FAT32 THEN ToInt(ret.rootSecs) ELSE 0)

\* "remainingSectors := int64(sz/512) - absData" (lines 1266, 1466)
remainingSectors == inp.size - absData

\* newProgressTracker(total)
newProgressTracker(total) == [total |-> total, marks |-> {}, currentPos |-> 0]

\* a markRange that keeps only the range of the last call
markRange_keepsLastRange(p, start, count) ==
    LET end == IF start + count > p.total THEN p.total ELSE start + count
    IN  [p EXCEPT !.marks = {x \in start..(end - 1) : x >= 0 /\ x < p.total},
                  !.currentPos = IF end - 1 >= 0 THEN end - 1 ELSE @]

\* progressTracker.markRange(start, count)
markRange(p, start, count) ==
    LET end == IF start + count > p.total THEN p.total ELSE start + count
    IN  [p EXCEPT !.marks = @ \cup {x \in start..(end - 1) : x >= 0 /\ x < p.total},
                  !.currentPos = IF end - 1 >= 0 THEN end - 1 ELSE @]

\* os.Exit(2) in must (line 66) and os.Exit(130) in the signal handler (line 1190)
ExitFailure == 2
ExitInterrupted == 130

\* the process is running: neither main nor the signal handler has called os.Exit
Alive == proc.exit = -1

\* "return err" / "return nil" in RunE: the deferred calls run next
Return(err) ==
    /\ pc' = "unwind"
    /\ proc' = [proc EXCEPT !.retErr = err]

(* ---------------------- validation and planning ---------------------- *)

\* the checks of lines 1067-1108, in order; "" when all pass
validateError ==
    LET targets == (IF cfg.out THEN 1 ELSE 0) + (IF cfg.device THEN 1 ELSE 0)
    IN  CASE targets > 1 -> "choose at most one of --out or --device"
          [] ~cfg.emulate /\ targets = 0 -> "choose --out or --device, or use --emulate"
          [] cfg.device /\ ~cfg.force -> "--device requires --force"
          [] cfg.device /\ cfg.goos = "windows" -> "raw device formatting is not supported"
          [] cfg.sizeArg = "missing" -> "--size is required"
          [] cfg.sizeArg = "unparsable" -> "parseSize"
          [] cfg.sizeArg = "notmult" -> "size must be multiple of 512"
          [] cfg.typeArg = "unknown" -> "unknown --type"
          [] OTHER -> ""

\* a validation that lets every configuration through
Validate_acceptsAll ==
    /\ pc = "validate"
    /\ Alive
    /\ pc' = "plan"
    /\ proc' = proc
    /\ UNCHANGED <<inp, g, ret, planVars, unitVars, cfg, tgt, ui, pt, w, wlog, sig>>

Validate ==
    /\ pc = "validate"
    /\ Alive
    /\ IF validateError # ""
       THEN Return(validateError)
       ELSE pc' = "plan" /\ proc' = proc
    /\ UNCHANGED <<inp, g, ret, planVars, unitVars, cfg, tgt, ui, pt, w, wlog, sig>>

\* lines 1110-1142: preset, overrides, computeLayout
Plan ==
    /\ pc = "plan"
    /\ Alive
    /\ LET p == presetForSizeBytes(inp.ft, inp.size)
       IN  IF p.err # ""
           THEN /\ Return(p.err)
                /\ UNCHANGED <<g, ret>>
           ELSE LET r == computeLayout(inp.ft, applyOverride(p.g, inp.size, inp.heads,
                                                             inp.spt, inp.tracks))
                IN  /\ g' = r.g
                    /\ ret' = [err |-> r.err, fatSecs |-> r.fatSecs,
                               rootSecs |-> r.rootSecs, dataSecs |-> r.dataSecs,
                               clusters |-> r.clusters]
                    /\ IF r.err # ""
                       THEN Return(r.err)
                       ELSE pc' = "newui" /\ proc' = proc
    /\ UNCHANGED <<inp, planVars, unitVars, cfg, tgt, ui, pt, w, wlog, sig>>

\* lines 1144-1191: the UI (its event loop starts), "defer ui.Close()", the
\* tracker, and the signal-handler goroutine
NewUI ==
    /\ pc = "newui"
    /\ Alive
    /\ \E uiOk \in BOOLEAN :
        IF ~uiOk
        THEN /\ Return("ui init")
             /\ UNCHANGED <<ui, pt, sig>>
        ELSE /\ ui' = [ui EXCEPT !.state = "open", !.deferred = TRUE]
             /\ pt' = newProgressTracker(totalSectors)
             /\ sig' = "armed"
             /\ pc' = IF cfg.emulate THEN "emu_boot" ELSE "open"
             /\ proc' = proc
    /\ UNCHANGED <<inp, g, ret, planVars, unitVars, cfg, tgt, w, wlog>>

(* ------------------------- the write helpers ------------------------- *)

\* One pass of the loop of writeSpanWithStatus (lines 640-663) and of
\* zeroSpanWithStatus (lines 678-701) over a span of `sectors` sectors, w.wr of
\* them already written: what the helper does after this pass.
spanResult(sectors, ok) ==
    LET n == Min(sectors - w.wr, ChunkSectors)
    IN  IF ~ok THEN "error"
        ELSE IF ui.stopped THEN "interrupted"
        ELSE IF w.wr + n >= sectors THEN "done"
        ELSE "more"

\* a pass that writes and marks every chunk at the start of the span
spanPass_restartsOffset(ph, sink, absStart, sectors, ok) ==
    LET n == Min(sectors - w.wr, ChunkSectors)
    IN  /\ wlog' = Append(wlog, [ph |-> ph, sink |-> sink, at |-> absStart,
                                 len |-> n * 512, ok |-> ok, stop |-> ui.stopped,
                                 chk |-> ""])
        /\ pt' = IF ok THEN markRange(pt, absStart, n) ELSE pt
        /\ w' = [w EXCEPT !.wr = IF spanResult(sectors, ok) = "more" THEN @ + n ELSE 0]

\* the WriteAt of that pass, the markRange after it, and the helper's local wr
spanPass(ph, sink, absStart, sectors, ok) ==
    LET n == Min(sectors - w.wr, ChunkSectors)
    IN  /\ wlog' = Append(wlog, [ph |-> ph, sink |-> sink, at |-> absStart + w.wr,
                                 len |-> n * 512, ok |-> ok, stop |-> ui.stopped,
                                 chk |-> ""])
        /\ pt' = IF ok THEN markRange(pt, absStart + w.wr, n) ELSE pt
        /\ w' = [w EXCEPT !.wr = IF spanResult(sectors, ok) = "more" THEN @ + n ELSE 0]

(* --------------------------- emulate branch -------------------------- *)

\* an emulate phase that writes to the target instead of the nullWriter
EmuSpan_writesTarget(ph, absStart, sectors, phaseDone, next) ==
    /\ pc = ph
    /\ Alive
    /\ spanPass(ph, "file", absStart, sectors, TRUE)
    /\ LET r == spanResult(sectors, TRUE)
       IN  /\ pc' = IF r = "more" THEN pc ELSE next
           /\ ui' = IF r = "more" \/ phaseDone = ""
                    THEN ui
                    ELSE [ui EXCEPT !.phasesDone = @ \cup {phaseDone}]
           /\ proc' = IF r = "interrupted" THEN [proc EXCEPT !.interrupted = TRUE] ELSE proc
    /\ UNCHANGED <<inp, g, ret, planVars, unitVars, cfg, tgt, sig>>

\* A phase of the emulate branch (lines 1193-1269): the helper writes to the
\* nullWriter, which never fails; ErrInterrupted is not returned
\* ("err != nil && !errors.Is(err, ErrInterrupted)") and the data-area result is
\* discarded, so the branch goes on to the next phase either way.
EmuSpan(ph, absStart, sectors, phaseDone, next) ==
    /\ pc = ph
    /\ Alive
    /\ spanPass(ph, "null", absStart, sectors, TRUE)
    /\ LET r == spanResult(sectors, TRUE)
       IN  /\ pc' = IF r = "more" THEN pc ELSE next
           /\ ui' = IF r = "more" \/ phaseDone = ""
                    THEN ui
                    ELSE [ui EXCEPT !.phasesDone = @ \cup {phaseDone}]
           /\ proc' = IF r = "interrupted" THEN [proc EXCEPT !.interrupted = TRUE] ELSE proc
    /\ UNCHANGED <<inp, g, ret, planVars, unitVars, cfg, tgt, sig>>

\* lines 1206-1211
EmuBoot == EmuSpan("emu_boot", 0, 1, "boot",
                   IF inp.ft = FAT32 THEN "emu_fsinfo" ELSE "emu_fat1")
\* lines 1216-1218
EmuFSInfo == EmuSpan("emu_fsinfo", g.FSInfoSector, 1, "", "emu_backup")
\* lines 1221-1223
EmuBackup == EmuSpan("emu_backup", g.BackupBootSector, 1, "", "emu_fat1")
\* lines 1228-1240
EmuFAT1 == EmuSpan("emu_fat1", g.ReservedSectors, ToInt(ret.fatSecs), "fat1", "emu_fat2")
\* lines 1241-1246
EmuFAT2 == EmuSpan("emu_fat2", g.ReservedSectors + ToInt(ret.fatSecs),
                   ToInt(ret.fatSecs), "fat2",
                   IF inp.ft # FAT32 THEN "emu_root"
                   ELSE IF remainingSectors > 0 THEN "emu_data" ELSE "emu_complete")
\* lines 1248-1258
EmuRoot == EmuSpan("emu_root", absRoot, ToInt(ret.rootSecs), "root",
                   IF remainingSectors > 0 THEN "emu_data" ELSE "emu_complete")
\* lines 1262-1269
EmuData == EmuSpan("emu_data", absData, remainingSectors, "", "emu_complete")

\* lines 1270-1277: "Format complete", the 2 s wait, ui.Close(), return nil
EmuComplete ==
    /\ pc = "emu_complete"
    /\ Alive
    /\ ui' = [ui EXCEPT !.state = "closed"]
    /\ Return("nil")
    /\ UNCHANGED <<inp, g, ret, planVars, unitVars, cfg, tgt, pt, w, wlog, sig>>

(* ----------------------------- real target --------------------------- *)

\* what the environment answers while the target is opened
\* "sz": the requested size in bytes
sz == inp.size * 512

\* what getDeviceSize can report for a target of n bytes: nothing, one sector
\* less, exactly n, one sector more
DeviceSizes(n) == {0, n - 512, n, n + 512}

\* The outcomes of the system calls of the open step; a call the run does not
\* make has one outcome. getDeviceSize returns 0 together with an error.
OpenEnvs ==
    IF cfg.out
    THEN [mkdir : BOOLEAN, create : BOOLEAN, truncate : BOOLEAN,
          prep : {"nolock"}, open : {TRUE}, sizeErr : {FALSE}, deviceSize : {0},
          probe : {TRUE}]
    ELSE {e \in [mkdir : {TRUE}, create : {TRUE}, truncate : {TRUE},
                 prep : IF cfg.goos = "windows" THEN {"error", "nolock", "locked"}
                        ELSE {"nolock"},
                 open : BOOLEAN, sizeErr : BOOLEAN, deviceSize : DeviceSizes(sz),
                 probe : IF cfg.llf THEN BOOLEAN ELSE {TRUE}] :
            e.sizeErr => e.deviceSize = 0}

\* cleanupWindowsVolume(volHandle): unlock and close, unless the handle is 0
cleanupWindowsVolume(t) ==
    IF t.vol = 0 THEN t ELSE [t EXCEPT !.vol = 0, !.cleanups = @ + 1]

\* lines 1283-1296: --out
openOut(env) ==
    IF ~env.mkdir \/ ~env.create
    THEN [t |-> tgt, err |-> "create", warn |-> ""]
    ELSE LET t1 == [tgt EXCEPT !.kind = "file", !.state = "open", !.created = TRUE,
                               !.deferred = TRUE]
         IN  IF ~env.truncate
             THEN [t |-> t1, err |-> "truncate", warn |-> ""]
             ELSE [t |-> [t1 EXCEPT !.sized = TRUE], err |-> "", warn |-> ""]

\* lines 1297-1360: --device
openDevice(env) ==
    IF cfg.goos = "windows" /\ env.prep = "error"
    THEN [t |-> tgt, err |-> "prepare device", warn |-> ""]
    ELSE LET t1 == IF cfg.goos = "windows" /\ env.prep = "locked"
                   THEN [tgt EXCEPT !.vol = 1, !.locks = @ + 1]
                   ELSE tgt
         IN  IF ~env.open
             THEN [t |-> IF cfg.goos = "windows" THEN cleanupWindowsVolume(t1) ELSE t1,
                   err |-> "open device", warn |-> ""]
             ELSE LET t2 == [t1 EXCEPT !.kind = "device", !.state = "open",
                                       !.deferred = TRUE, !.probed = TRUE,
                                       !.deviceSize = env.deviceSize]
                      unknown == env.sizeErr \/ env.deviceSize <= 0
                      warn == IF unknown THEN "cannot determine device size"
                              ELSE IF env.deviceSize > sz THEN "device is larger"
                              ELSE ""
                  IN  IF ~unknown /\ env.deviceSize < sz
                      THEN [t |-> t2, err |-> "device too small", warn |-> ""]
                      ELSE IF cfg.llf /\ ~env.probe
                      THEN [t |-> t2, err |-> "low-level format not available",
                            warn |-> warn]
                      ELSE [t |-> t2, err |-> "", warn |-> warn]

\* lines 1281-1362
OpenTarget ==
    /\ pc = "open"
    /\ Alive
    /\ \E env \in OpenEnvs :
        LET o == IF cfg.out THEN openOut(env) ELSE openDevice(env)
        IN  /\ tgt' = o.t
            /\ IF o.err # ""
               THEN /\ pc' = "unwind"
                    /\ proc' = [proc EXCEPT !.retErr = o.err, !.warned = @ \/ o.warn # "",
                                             !.sizeWarning = o.warn]
               ELSE /\ pc' = "boot"
                    /\ proc' = [proc EXCEPT !.warned = @ \/ o.warn # "",
                                             !.sizeWarning = o.warn]
    /\ UNCHANGED <<inp, g, ret, planVars, unitVars, cfg, ui, pt, w, wlog, sig>>

(* ------------------------- real structure phases --------------------- *)

\* A structure phase of the real branch: "if err := ...WithStatus(sink, ...);
\* err != nil { return err }", then file.Sync() and SetPhaseDone.
RealSpan(ph, absStart, sectors, phaseDone, next) ==
    /\ pc = ph
    /\ Alive
    /\ \E ok \in BOOLEAN :
        /\ spanPass(ph, "file", absStart, sectors, ok)
        /\ LET r == spanResult(sectors, ok)
           IN  /\ CASE r = "more" -> pc' = pc /\ proc' = proc
                     [] r = "done" -> pc' = next /\ proc' = proc
                     [] r = "error" -> Return("write error")
                     [] OTHER ->
                          /\ pc' = "unwind"
                          /\ proc' = [proc EXCEPT !.retErr = "interrupted",
                                                  !.interrupted = TRUE]
               /\ tgt' = IF r = "done" THEN [tgt EXCEPT !.syncs = @ + 1] ELSE tgt
               /\ ui' = IF r = "done" /\ phaseDone # ""
                        THEN [ui EXCEPT !.phasesDone = @ \cup {phaseDone}]
                        ELSE ui
    /\ UNCHANGED <<inp, g, ret, planVars, unitVars, cfg, sig>>

\* lines 1364-1381
RealBoot == RealSpan("boot", 0, 1, "boot", IF inp.ft = FAT32 THEN "fsinfo" ELSE "fat1")
\* lines 1385-1393
RealFSInfo == RealSpan("fsinfo", g.FSInfoSector, 1, "", "backup")
\* lines 1394-1401
RealBackup == RealSpan("backup", g.BackupBootSector, 1, "", "fat1")
\* the FAT #1 phase going straight on to the phase after FAT #2
RealFAT1_skipsFAT2 ==
    RealSpan("fat1", absFAT1, ToInt(ret.fatSecs), "fat1",
             IF inp.ft # FAT32 THEN "root" ELSE "firstdata")
\* lines 1404-1422
RealFAT1 == RealSpan("fat1", absFAT1, ToInt(ret.fatSecs), "fat1", "fat2")
\* lines 1424-1435
RealFAT2 == RealSpan("fat2", absFAT2, ToInt(ret.fatSecs), "fat2",
                     IF inp.ft # FAT32 THEN "root" ELSE "firstdata")
\* lines 1438-1446; SetPhaseDone("root") comes after the label (line 1454)
RealRoot == RealSpan("root", absRoot, ToInt(ret.rootSecs), "", "label")

\* lines 1447-1456: the volume-label entry, written with file.WriteAt directly
RealLabel ==
    /\ pc = "label"
    /\ Alive
    /\ IF cfg.label = <<>>
       THEN /\ wlog' = wlog
            /\ pc' = "fullformat"
            /\ proc' = proc
            /\ ui' = [ui EXCEPT !.phasesDone = @ \cup {"root"}]
       ELSE \E ok \in BOOLEAN :
            /\ wlog' = Append(wlog, [ph |-> "label", sink |-> "file", at |-> absRoot,
                                     len |-> Len(buildRootLabelEntry(cfg.label)),
                                     ok |-> ok, stop |-> ui.stopped, chk |-> ""])
            /\ IF ok
               THEN /\ pc' = "fullformat"
                    /\ proc' = proc
                    /\ ui' = [ui EXCEPT !.phasesDone = @ \cup {"root"}]
               ELSE /\ Return("write error")
                    /\ ui' = ui
    /\ UNCHANGED <<inp, g, ret, planVars, unitVars, cfg, tgt, pt, w, sig>>

\* lines 1457-1462 (FAT32): "_ = zeroSpanWithStatus(sink, absData, 1, ...)", the
\* result is discarded; then file.Sync()
RealFirstData ==
    /\ pc = "firstdata"
    /\ Alive
    /\ \E ok \in BOOLEAN :
        /\ spanPass("firstdata", "file", absData, 1, ok)
        /\ proc' = IF spanResult(1, ok) = "interrupted"
                   THEN [proc EXCEPT !.interrupted = TRUE] ELSE proc
    /\ tgt' = [tgt EXCEPT !.syncs = @ + 1]
    /\ pc' = "fullformat"
    /\ UNCHANGED <<inp, g, ret, planVars, unitVars, cfg, ui, sig>>

(* ------------------------------ full format -------------------------- *)

\* lines 1465-1471, 1475-1477: which pass runs, if any
FullFormatEnter ==
    /\ pc = "fullformat"
    /\ Alive
    /\ pc' = IF cfg.full /\ remainingSectors > 0
             THEN CASE cfg.sync = "sector" -> "ff_zero"
                    [] cfg.sync \in {"track", "phase", "none"} -> "ft_chunk"
                    [] OTHER -> "complete"
             ELSE "complete"
    /\ w' = w0
    /\ UNCHANGED <<inp, g, ret, planVars, unitVars, cfg, tgt, ui, pt, wlog, sig, proc>>

\* the pass returned err to RunE
ffReturn(err) ==
    /\ pc' = "ff_return"
    /\ w' = [w EXCEPT !.ffErr = err, !.wr = 0]

\* fullFormatDataArea lines 791-806: the size of this chunk, in sectors
ffChunk == Min(remainingSectors - w.written, ChunkSectors)

\* fullFormatDataArea lines 797-800: zero the chunk
FFZeroChunk ==
    /\ pc = "ff_zero"
    /\ Alive
    /\ \E ok \in BOOLEAN :
        /\ wlog' = Append(wlog, [ph |-> "ff_zero", sink |-> "file",
                                 at |-> absData + w.written, len |-> ffChunk * 512,
                                 ok |-> ok, stop |-> ui.stopped, chk |-> ""])
        /\ IF ok
           THEN pc' = "ff_stop" /\ w' = [w EXCEPT !.k = 0]
           ELSE ffReturn("write error")
    /\ UNCHANGED <<inp, g, ret, planVars, unitVars, cfg, tgt, ui, pt, sig, proc>>

\* fullFormatDataArea lines 807-810: "if u.IsStopped() { return ErrInterrupted }"
FFCheckStop ==
    /\ pc = "ff_stop"
    /\ Alive
    /\ IF ui.stopped
       THEN ffReturn("interrupted") /\ proc' = [proc EXCEPT !.interrupted = TRUE]
       ELSE pc' = "ff_bad" /\ w' = w /\ proc' = proc
    /\ UNCHANGED <<inp, g, ret, planVars, unitVars, cfg, tgt, ui, pt, wlog, sig>>

\* what checkBadSector(rw, sector) finds (lines 749-778)
BadSectorOutcomes == {"good", "write failed", "read failed", "verification failed"}

\* the bad-sector list with a failed comparison not counted as a bad sector
appendBad_ignoresMismatch(bad, res, sector) ==
    IF res \in {"good", "verification failed"} THEN bad ELSE Append(bad, sector)
\* fullFormatDataArea lines 816-819: "if err := checkBadSector(...); err != nil {
\* badSectors = append(badSectors, currentSector) }"
appendBad(bad, res, sector) ==
    IF res = "good" THEN bad ELSE Append(bad, sector)

\* fullFormatDataArea lines 812-836: checkBadSector, markRange, and the ends of
\* both loops
FFCheckBad ==
    /\ pc = "ff_bad"
    /\ Alive
    /\ \E res \in BadSectorOutcomes :
        LET currentSector == absData + w.written + w.k
            bad == appendBad(w.bad, res, currentSector)
            written == w.written + ffChunk
        IN  /\ res # "good" => Len(w.bad) < MaxBadSectors
            /\ wlog' = Append(wlog, [ph |-> "pattern", sink |-> "file",
                                     at |-> currentSector, len |-> 512,
                                     ok |-> res # "write failed", stop |-> ui.stopped,
                                     chk |-> res])
            /\ pt' = markRange(pt, currentSector, 1)
            /\ IF w.k + 1 < ffChunk
               THEN pc' = "ff_stop" /\ w' = [w EXCEPT !.k = @ + 1, !.bad = bad]
               ELSE IF written < remainingSectors
               THEN pc' = "ff_zero" /\ w' = [w EXCEPT !.written = written, !.bad = bad]
               ELSE /\ pc' = "ff_return"
                    /\ w' = [w EXCEPT !.written = written, !.bad = bad,
                                      !.ffErr = IF Len(bad) > 0 THEN "bad sectors"
                                                ELSE "nil"]
    /\ UNCHANGED <<inp, g, ret, planVars, unitVars, cfg, tgt, ui, sig, proc>>

\* fullFormatTrack lines 2072-2074
trackSectors == IF g.SectorsPerTrack <= 0 THEN 18 ELSE g.SectorsPerTrack

\* fullFormatTrack lines 2076-2097: one pass of zeroSpanWithStatus over the
\* current track, and after the track the sync policy
FTChunk ==
    /\ pc = "ft_chunk"
    /\ Alive
    /\ \E ok \in BOOLEAN :
        LET chunk == Min(trackSectors, remainingSectors - w.written)
            r == spanResult(chunk, ok)
            n == Min(chunk - w.wr, ChunkSectors)
            last == w.written + chunk >= remainingSectors
        IN  /\ wlog' = Append(wlog, [ph |-> "ft_chunk", sink |-> "file",
                                     at |-> absData + w.written + w.wr,
                                     len |-> n * 512, ok |-> ok, stop |-> ui.stopped,
                                 chk |-> ""])
            /\ pt' = IF ok THEN markRange(pt, absData + w.written + w.wr, n) ELSE pt
            /\ proc' = IF r = "interrupted"
                       THEN [proc EXCEPT !.interrupted = TRUE] ELSE proc
            /\ CASE r = "more" -> pc' = pc /\ w' = [w EXCEPT !.wr = @ + n] /\ tgt' = tgt
                 [] r = "error" -> ffReturn("write error") /\ tgt' = tgt
                 [] r = "interrupted" -> ffReturn("interrupted") /\ tgt' = tgt
                 [] OTHER ->
                      /\ tgt' = [tgt EXCEPT !.syncs =
                                    @ + (IF cfg.sync \in {"track", "phase"} THEN 1 ELSE 0)
                                      + (IF last /\ cfg.sync = "phase" THEN 1 ELSE 0)]
                      /\ w' = [w EXCEPT !.wr = 0, !.written = @ + chunk,
                                        !.ffErr = IF last THEN "nil" ELSE @,
                                        !.syncs =
                                    @ + (IF cfg.sync \in {"track", "phase"} THEN 1 ELSE 0)
                                      + (IF last /\ cfg.sync = "phase" THEN 1 ELSE 0)]
                      /\ pc' = IF last THEN "ff_return" ELSE pc
    /\ UNCHANGED <<inp, g, ret, planVars, unitVars, cfg, ui, sig>>

\* lines 1472-1474 and 1478-1480: an error of the pass is printed as a WARNING
FullFormatReturn ==
    /\ pc = "ff_return"
    /\ Alive
    /\ proc' = [proc EXCEPT !.warned = @ \/ w.ffErr # "nil"]
    /\ pc' = "complete"
    /\ UNCHANGED <<inp, g, ret, planVars, unitVars, cfg, tgt, ui, pt, w, wlog, sig>>

(* ------------------------- completion and exit ----------------------- *)

\* lines 1490-1508: "Format complete", waitWithStop (it only waits: lines
\* 710-717), ui.Close(), the summary, return nil
Complete ==
    /\ pc = "complete"
    /\ Alive
    /\ ui' = [ui EXCEPT !.state = "closed"]
    /\ Return("nil")
    /\ UNCHANGED <<inp, g, ret, planVars, unitVars, cfg, tgt, pt, w, wlog, sig>>

\* the deferred call of line 1292 or lines 1326-1332: file.Close(), and for a
\* device on Windows cleanupWindowsVolume; it runs before the deferred ui.Close()
DeferredTargetClose ==
    /\ pc = "unwind"
    /\ Alive
    /\ tgt.deferred
    /\ tgt' = LET t == [tgt EXCEPT !.state = "closed", !.closes = @ + 1,
                                   !.deferred = FALSE]
              IN  IF tgt.kind = "device" /\ cfg.goos = "windows"
                  THEN cleanupWindowsVolume(t) ELSE t
    /\ UNCHANGED <<pc, inp, g, ret, planVars, unitVars, cfg, ui, pt, w, wlog, sig, proc>>

\* the deferred ui.Close() of line 1148; UI.Close does nothing when u.s is nil
DeferredUIClose ==
    /\ pc = "unwind"
    /\ Alive
    /\ ~tgt.deferred
    /\ ui.deferred
    /\ ui' = [ui EXCEPT !.state = "closed", !.deferred = FALSE]
    /\ UNCHANGED <<pc, inp, g, ret, planVars, unitVars, cfg, tgt, pt, w, wlog, sig, proc>>

\* must(root.Execute()): os.Exit(2) on any error, else main returns
Must ==
    /\ pc = "unwind"
    /\ Alive
    /\ ~tgt.deferred
    /\ ~ui.deferred
    /\ proc' = [proc EXCEPT !.exit = IF proc.retErr = "nil" THEN 0 ELSE ExitFailure]
    /\ pc' = "exited"
    /\ UNCHANGED <<inp, g, ret, planVars, unitVars, cfg, tgt, ui, pt, w, wlog, sig>>

(* ------------------------ the cancellation side ---------------------- *)

\* UI.eventLoop: Ctrl-C, q, Q or Esc on the live screen calls RequestStop
UIKey ==
    /\ Alive
    /\ ui.state = "open"
    /\ ~ui.stopped
    /\ ui' = [ui EXCEPT !.stopped = TRUE]
    /\ UNCHANGED <<pc, inp, g, ret, planVars, unitVars, cfg, tgt, pt, w, wlog, sig, proc>>

\* lines 1187-1188: the signal arrives and the handler calls ui.RequestStop().
\* RequestStop does its work once; if that is now and UI.Close has already set
\* u.s to nil, u.s.PostEvent is a call on a nil screen, and the read of u.s races
\* with Close: the handler either panics (the process dies with status 2) or not.
SigArrive ==
    /\ Alive
    /\ sig = "armed"
    /\ \E panics \in BOOLEAN :
        /\ panics => (~ui.stopped /\ ui.state = "closed")
        /\ ui' = [ui EXCEPT !.stopped = TRUE]
        /\ sig' = IF panics THEN "panicked" ELSE "exiting"
        /\ proc' = IF panics THEN [proc EXCEPT !.exit = ExitFailure] ELSE proc
    /\ UNCHANGED <<pc, inp, g, ret, planVars, unitVars, cfg, tgt, pt, w, wlog>>

\* lines 1189-1190: "Interrupted" on stderr, os.Exit(130); no deferred call runs
SigExit ==
    /\ Alive
    /\ sig = "exiting"
    /\ sig' = "exited"
    /\ proc' = [proc EXCEPT !.exit = ExitInterrupted]
    /\ UNCHANGED <<pc, inp, g, ret, planVars, unitVars, cfg, tgt, ui, pt, w, wlog>>

(* ------------------------------ the runs ----------------------------- *)

\* geometry inputs of the runs: small FAT12 images with 1 to 3 data sectors, the
\* same with 2-sector tracks, a FAT16 and two FAT32 images whose --heads, --spt
\* and --tracks give the volume more sectors than the image, the 1.44M floppy,
\* and a FAT32 image of 260 MiB
RunPlans ==
    {[ft |-> FAT12, size |-> s, heads |-> 0, spt |-> 0, tracks |-> 0] :
        s \in {36, MaxRunSectors, Sec1440K}}
    \cup {[ft |-> FAT12, size |-> MaxRunSectors, heads |-> 0, spt |-> 2, tracks |-> 0],
          [ft |-> FAT16, size |-> 76, heads |-> 2, spt |-> 63, tracks |-> 80],
          [ft |-> FAT16, size |-> Sec1440K, heads |-> 0, spt |-> 0, tracks |-> 0],
          [ft |-> FAT12, size |-> Sec16M, heads |-> 0, spt |-> 0, tracks |-> 0],
          [ft |-> FAT32, size |-> 2049, heads |-> 16, spt |-> 63, tracks |-> 1024],
          [ft |-> FAT32, size |-> 100, heads |-> 16, spt |-> 63, tracks |-> 1024],
          [ft |-> FAT32, size |-> 532480, heads |-> 0, spt |-> 0, tracks |-> 0]}

\* the runs that are given --full: those with a short data area (the FAT32
\* image of 100 sectors has none: its pass is not entered; the FAT32 images
\* take the per-track pass only), and for the per-track pass also the floppy
FullPlans(sync) ==
    {p \in RunPlans : \/ p.size <= 2049 /\ (p.ft = FAT32 => sync = "track")
                      \/ p.size = Sec1440K /\ sync = "track"}

SyncModes == {"sector", "track", "phase", "none", "other"}

\* the flag combinations of the runs; a flag that the run cannot reach keeps its
\* default, so that no two runs differ only in a flag that is never read
RunFlags ==
    {c \in [out : BOOLEAN, device : BOOLEAN, force : BOOLEAN, emulate : BOOLEAN,
            goos : {"linux", "windows"},
            sizeArg : {"ok", "missing", "unparsable", "notmult"},
            typeArg : {"ok", "unknown"}, full : BOOLEAN, sync : SyncModes,
            label : {<<>>, StrTESTDISK}, llf : BOOLEAN, oem : {DefaultOEM},
            cmd : {"format"}] :
        LET valid == /\ c.out # c.device
                     /\ c.device => c.force /\ c.goos = "linux"
                     /\ c.sizeArg = "ok" /\ c.typeArg = "ok"
            real == valid /\ ~c.emulate
        IN  /\ c.force => c.device
            /\ ~(c.sizeArg # "ok" /\ c.typeArg # "ok")
            /\ (c.sizeArg # "ok" \/ c.typeArg # "ok") => c.out /\ ~c.device /\ ~c.emulate
            /\ c.emulate => c.goos = "linux"
            /\ c.full => real
            /\ ~c.full => c.sync = "track"
            /\ c.label # <<>> => real
            /\ c.llf => real /\ c.device /\ ~c.full
            /\ c.device => c.label = <<>>
            /\ c.device /\ c.full => c.sync \in {"sector", "track"}
            /\ c.goos = "windows" => ~c.full /\ c.label = <<>> /\ ~c.llf}

\* A format run: a plan and a flag combination. The long images (floppy, FAT32
\* of 260 MiB) and the FAT32 image without data area go to an image file or to
\* the nullWriter; the FAT32 image of 2049 sectors goes to a device; --llf and
\* the rejected configurations are run on the smallest FAT12 image.
InitFormat ==
    /\ pc = "validate"
    /\ inp \in RunPlans
    /\ cfg \in RunFlags
    /\ cfg.full => inp \in FullPlans(cfg.sync)
    /\ inp.ft = FAT32 => cfg.label = <<>> /\ cfg.sync \in {"sector", "track"}
    /\ cfg.llf => inp.size = MaxRunSectors /\ inp.spt = 0
    /\ inp.size \in {Sec1440K, 532480, 100} => ~cfg.device
    /\ inp.size = 2049 => ~cfg.out
    /\ (cfg.sizeArg # "ok" \/ cfg.typeArg # "ok" \/ cfg.out = cfg.device
            \/ cfg.goos = "windows")
          => inp.size = MaxRunSectors /\ inp.spt = 0
    /\ g = geom0
    /\ i = 0
    /\ loc = loc0
    /\ ret = ret0
    /\ tgt = tgt0
    /\ ui = ui0
    /\ pt = pt0
    /\ w = w0
    /\ wlog = <<>>
    /\ sig = "off"
    /\ proc = proc0
    /\ sec = <<>>
    /\ call = call0
    /\ prep = prep0
    /\ cp = cp0

(* ------------------------- the img2dev command ----------------------- *)

\* img2dev RunE, lines 1579-1590: the three flag checks
copyValidateError ==
    CASE ~cp.inGiven -> "--in is required"
      [] ~cp.deviceGiven -> "--device is required"
      [] ~cp.force -> "--force is required for device operations"
      [] OTHER -> ""

CopyValidate ==
    /\ pc = "copy_validate"
    /\ Alive
    /\ IF copyValidateError # ""
       THEN Return(copyValidateError)
       ELSE pc' = "copy_open" /\ proc' = proc
    /\ UNCHANGED <<inp, g, ret, planVars, cfg, tgt, ui, pt, w, wlog, sig, sec, call, prep, cp>>

\* the outcomes of the system calls of copyImageToDevice before its loop
CopyEnvs ==
    {e \in [srcOpen : BOOLEAN, stat : BOOLEAN, dstOpen : BOOLEAN, sizeErr : BOOLEAN,
            deviceSize : {d \in DeviceSizes(cp.imageSize) : d >= 0}] :
        e.sizeErr => e.deviceSize = 0}

\* a size check that lets a smaller device through
copyOpen_noSizeCheck(env) ==
    IF ~env.srcOpen
    THEN [c |-> cp, t |-> tgt, err |-> "open image", warn |-> ""]
    ELSE IF ~env.stat
    THEN [c |-> [cp EXCEPT !.src = "open"], t |-> tgt, err |-> "stat image", warn |-> ""]
    ELSE IF ~env.dstOpen
    THEN [c |-> [cp EXCEPT !.src = "open"], t |-> tgt, err |-> "open device", warn |-> ""]
    ELSE LET c1 == [cp EXCEPT !.src = "open"]
             t1 == [tgt EXCEPT !.kind = "device", !.state = "open", !.probed = TRUE,
                               !.deviceSize = env.deviceSize]
         IN  IF env.sizeErr
             THEN [c |-> c1, t |-> t1, err |-> "get device size", warn |-> ""]
             ELSE [c |-> c1, t |-> t1, err |-> "",
                   warn |-> IF env.deviceSize > cp.imageSize THEN "device is larger"
                            ELSE ""]

\* copyImageToDevice lines 975-1008: open the image, stat it, open the device
\* write-only, probe its size, compare
copyOpen(env) ==
    IF ~env.srcOpen
    THEN [c |-> cp, t |-> tgt, err |-> "open image", warn |-> ""]
    ELSE IF ~env.stat
    THEN [c |-> [cp EXCEPT !.src = "open"], t |-> tgt, err |-> "stat image", warn |-> ""]
    ELSE IF ~env.dstOpen
    THEN [c |-> [cp EXCEPT !.src = "open"], t |-> tgt, err |-> "open device", warn |-> ""]
    ELSE LET c1 == [cp EXCEPT !.src = "open"]
             t1 == [tgt EXCEPT !.kind = "device", !.state = "open", !.probed = TRUE,
                               !.deviceSize = env.deviceSize]
         IN  IF env.sizeErr
             THEN [c |-> c1, t |-> t1, err |-> "get device size", warn |-> ""]
             ELSE IF env.deviceSize < cp.imageSize
             THEN [c |-> c1, t |-> t1, err |-> "device too small", warn |-> ""]
             ELSE [c |-> c1, t |-> t1, err |-> "",
                   warn |-> IF env.deviceSize > cp.imageSize THEN "device is larger"
                            ELSE ""]

CopyOpen ==
    /\ pc = "copy_open"
    /\ Alive
    /\ \E env \in CopyEnvs :
        LET o == copyOpen(env)
        IN  /\ cp' = o.c
            /\ tgt' = o.t
            /\ proc' = [proc EXCEPT !.retErr = IF o.err # "" THEN o.err ELSE @,
                                    !.warned = @ \/ o.warn # "",
                                    !.sizeWarning = o.warn]
            /\ pc' = IF o.err # "" THEN "copy_unwind" ELSE "copy_loop"
    /\ UNCHANGED <<inp, g, ret, planVars, cfg, ui, pt, w, wlog, sig, sec, call, prep>>

\* one pass of the loop of lines 1014-1035, or its exit when totalCopied has
\* reached imageSize: Read fills the buffer up to the end of the image, fails,
\* or returns 0 bytes; the block is written at the device's file position
CopyBlock ==
    /\ pc = "copy_loop"
    /\ Alive
    /\ IF cp.totalCopied >= cp.imageSize
       THEN pc' = "copy_sync" /\ UNCHANGED <<cp, proc>>
       ELSE \E rd \in {"ok", "error", "eof"}, wrOk \in BOOLEAN :
            LET n == Min(cp.blockSize, cp.imageSize - cp.totalCopied)
            IN  IF rd = "error"
                THEN /\ proc' = [proc EXCEPT !.retErr = "read image"]
                     /\ pc' = "copy_unwind"
                     /\ cp' = cp
                ELSE IF rd = "eof" \/ n = 0
                THEN /\ cp' = [cp EXCEPT !.eof = TRUE]
                     /\ pc' = "copy_sync"
                     /\ proc' = proc
                ELSE /\ cp' = [cp EXCEPT
                                  !.writes = Append(@, [at |-> cp.totalCopied,
                                                        len |-> n, ok |-> wrOk]),
                                  !.totalCopied = IF wrOk THEN @ + n ELSE @]
                     /\ IF wrOk
                        THEN pc' = pc /\ proc' = proc
                        ELSE /\ proc' = [proc EXCEPT !.retErr = "write device"]
                             /\ pc' = "copy_unwind"
    /\ UNCHANGED <<inp, g, ret, planVars, cfg, tgt, ui, pt, w, wlog, sig, sec, call, prep>>

\* lines 1037-1043: dst.Sync(), "Copy complete", return nil
CopySync ==
    /\ pc = "copy_sync"
    /\ Alive
    /\ \E syncOk \in BOOLEAN :
        /\ cp' = [cp EXCEPT !.synced = syncOk]
        /\ tgt' = [tgt EXCEPT !.syncs = IF syncOk THEN @ + 1 ELSE @]
        /\ proc' = [proc EXCEPT !.retErr = IF syncOk THEN "nil" ELSE "sync device"]
        /\ pc' = "copy_unwind"
    /\ UNCHANGED <<inp, g, ret, planVars, cfg, ui, pt, w, wlog, sig, sec, call, prep>>

\* the deferred dst.Close() and src.Close() of lines 993 and 980
CopyUnwind ==
    /\ pc = "copy_unwind"
    /\ Alive
    /\ tgt' = IF tgt.state = "open"
              THEN [tgt EXCEPT !.state = "closed", !.closes = @ + 1]
              ELSE tgt
    /\ cp' = [cp EXCEPT !.src = IF @ = "open" THEN "closed" ELSE @]
    /\ pc' = "unwind"
    /\ UNCHANGED <<inp, g, ret, planVars, cfg, ui, pt, w, wlog, sig, sec, call, prep, proc>>

\* the image sizes and block sizes of the copies, in bytes
CopyImageSizes == {k * 512 : k \in 0..MaxCopyBlocks} \cup {700}
CopyBlockSizes == {0, 512, 1024}

InitCopy ==
    /\ pc = "copy_validate"
    /\ inp = [ft |-> FAT12, size |-> 0, heads |-> 0, spt |-> 0, tracks |-> 0]
    /\ cfg = [cfg0 EXCEPT !.cmd = "img2dev"]
    /\ cp \in {c \in [inGiven : BOOLEAN, deviceGiven : BOOLEAN, force : BOOLEAN,
                       blockSize : CopyBlockSizes, imageSize : CopyImageSizes,
                       src : {"none"}, totalCopied : {0}, writes : {<<>>},
                       eof : {FALSE}, synced : {FALSE}] :
                  (~c.inGiven \/ ~c.deviceGiven \/ ~c.force)
                      => c.blockSize = 512 /\ c.imageSize = 512}
    /\ g = geom0
    /\ i = 0
    /\ loc = loc0
    /\ ret = ret0
    /\ tgt = tgt0
    /\ ui = ui0
    /\ pt = pt0
    /\ w = w0
    /\ wlog = <<>>
    /\ sig = "off"
    /\ proc = proc0
    /\ sec = <<>>
    /\ call = call0
    /\ prep = prep0

\* one run of mkfat: format or img2dev
InitRun ==
    \/ InitFormat
    \/ InitCopy

NextRun ==
    \/ CopyValidate
    \/ CopyOpen
    \/ CopyBlock
    \/ CopySync
    \/ CopyUnwind
    \/ Validate
    \/ Plan
    \/ NewUI
    \/ EmuBoot
    \/ EmuFSInfo
    \/ EmuBackup
    \/ EmuFAT1
    \/ EmuFAT2
    \/ EmuRoot
    \/ EmuData
    \/ EmuComplete
    \/ OpenTarget
    \/ RealBoot
    \/ RealFSInfo
    \/ RealBackup
    \/ RealFAT1
    \/ RealFAT2
    \/ RealRoot
    \/ RealLabel
    \/ RealFirstData
    \/ FullFormatEnter
    \/ FFZeroChunk
    \/ FFCheckStop
    \/ FFCheckBad
    \/ FTChunk
    \/ FullFormatReturn
    \/ Complete
    \/ DeferredTargetClose
    \/ DeferredUIClose
    \/ Must
    \/ UIKey
    \/ SigArrive
    \/ SigExit

SpecRun == InitRun /\ [][NextRun]_vars

(* ===================================================================== *)
(* Properties of a run (checked under SpecRun)                           *)
(* ===================================================================== *)

\* the writes of the full-format pass that zero a chunk of the data area
FullFormatWrites == {k \in DOMAIN wlog : wlog[k].ph \in {"ff_zero", "ft_chunk"}}

\* the run ended by RunE returning and main exiting (not by the signal handler)
RunReturned == pc = "exited"

\* the stop, if any, was requested from the UI: no signal has arrived
NoSignal == sig = "armed"

\* C7: if a stop is requested (here: from the UI) while the full-format pass of
\* a real run is in progress (the pass had issued a chunk write before the stop,
\* and then returned ErrInterrupted), at most one chunk write is issued after
\* the stop, the run ends with the Interrupted result and not with success, and
\* a device lock, if one was taken, is released exactly once.
C7_StopDuringFullFormat ==
    ((\E k \in FullFormatWrites : ~wlog[k].stop) /\ w.ffErr = "interrupted" /\ NoSignal)
        => /\ Cardinality({k \in FullFormatWrites : wlog[k].stop}) <= 1
           /\ RunReturned => (proc.retErr = "interrupted" /\ proc.exit # 0)
           /\ (RunReturned /\ tgt.locks > 0) => tgt.cleanups = 1

\* the writes to the real target that failed, the pattern writes of the
\* bad-sector check aside (a bad sector does not end the pass)
FailedWrites ==
    {k \in DOMAIN wlog : wlog[k].sink = "file" /\ ~wlog[k].ok /\ wlog[k].ph # "pattern"}

\* C8: in a real run, after a write to the target has failed in any phase no
\* further write is issued, the run does not end with success (exit code 0),
\* and when RunE has returned the target is closed.
C8_WriteFailureAborts ==
    \A k \in FailedWrites :
        /\ k = Len(wlog)
        /\ proc.exit # 0
        /\ RunReturned => tgt.state = "closed"

\* C10: the command exits with code 0 only when no cancellation took place, and
\* a cancelled run (here: a stop requested from the UI that the writer saw, a
\* write helper having returned ErrInterrupted, in real or in emulate mode)
\* exits with the code reserved for cancellation, which is not the code of the
\* other failures.
C10_ExitCodes ==
    /\ ExitInterrupted # ExitFailure
    /\ (proc.exit # -1 /\ proc.interrupted /\ NoSignal) => proc.exit = ExitInterrupted

\* No run takes a device lock: on Windows every --device run is rejected by
\* the validation (line 1084), elsewhere prepareWindowsDevice is not called.
NoLockEverTaken == tgt.locks = 0 /\ tgt.vol = 0 /\ tgt.cleanups = 0

\* C11: the interrupt-listening thread only sets the one-shot stop flag; it
\* never ends the process itself, so whenever the process has ended the writer
\* has returned and its teardown has run: no deferred close is pending and an
\* opened target is closed.
C11_ListenerOnlySetsFlag ==
    proc.exit # -1 => (RunReturned /\ ~tgt.deferred /\ tgt.state # "open")

\* the place of a write's phase in the order of the real run
PhaseRank(ph) ==
    CASE ph = "boot" -> 1
      [] ph = "fsinfo" -> 2
      [] ph = "backup" -> 3
      [] ph = "fat1" -> 4
      [] ph = "fat2" -> 5
      [] ph \in {"root", "firstdata"} -> 6
      [] ph = "label" -> 7
      [] OTHER -> 8

\* the phases that have issued a write
PhasesWritten == {wlog[k].ph : k \in DOMAIN wlog}

\* the phases a real run of this variant and these flags goes through
PhasesDue ==
    {"boot", "fat1", "fat2"}
    \cup (IF inp.ft = FAT32 THEN {"fsinfo", "backup", "firstdata"} ELSE {"root"})
    \cup (IF inp.ft # FAT32 /\ cfg.label # <<>> THEN {"label"} ELSE {})

\* C12: in a real run the writes occur in the order boot sector (sector 0);
\* FSInfo then backup boot sector (FAT32 only); FAT #1; FAT #2; root-directory
\* region then label entry if a label was given (FAT12/16) or first data-area
\* sector (FAT32); full-format pass if requested; completion. Every write is
\* issued after all writes of the earlier phases have returned, and when the
\* run reaches completion every phase that is due has written.
C12_PhaseOrder ==
    ~cfg.emulate =>
        /\ \A k \in 1..(Len(wlog) - 1) :
                PhaseRank(wlog[k].ph) <= PhaseRank(wlog[k + 1].ph)
        /\ \A k \in DOMAIN wlog :
                /\ wlog[k].ph = "boot" => wlog[k].at = 0
                /\ PhaseRank(wlog[k].ph) <= 7 => wlog[k].ph \in PhasesDue
                /\ PhaseRank(wlog[k].ph) = 8 => cfg.full
        /\ pc = "complete" =>
                /\ PhasesDue \subseteq PhasesWritten
                /\ (cfg.full /\ remainingSectors > 0 /\ cfg.sync # "other")
                      => \E k \in DOMAIN wlog : PhaseRank(wlog[k].ph) = 8

C12_Witness ==
    /\ pc = "complete"
    /\ ~cfg.emulate
    /\ cfg.label # <<>>
    /\ \E k \in DOMAIN wlog : wlog[k].ph = "ft_chunk"
    /\ \E k \in DOMAIN wlog : wlog[k].ph = "label"

\* the pattern writes of the bad-sector check, in order
PatternWrites == SelectSeq(wlog, LAMBDA e : e.ph = "pattern")

\* the data-area sectors whose pattern write, read-back or comparison failed
BadSet == {PatternWrites[k].at : k \in {j \in DOMAIN PatternWrites :
                                            PatternWrites[j].chk # "good"}}

\* fullFormatDataArea ran to its end: no zero-fill write failed, no stop was seen
SectorPassEnded ==
    /\ cfg.sync = "sector"
    /\ pc \in {"ff_return", "complete", "unwind", "exited"}
    /\ w.ffErr \in {"nil", "bad sectors"}

\* C13: whatever set B of data-area sectors fails the pattern write, the
\* read-back or the comparison, fullFormatDataArea processes every data-area
\* sector, once and in order, and its result lists exactly the sectors of B,
\* each once, ascending; it returns no error when B is empty; and the caller
\* treats a non-empty B as a warning: the run still returns success.
C13_BadSectorsAggregated ==
    SectorPassEnded =>
        /\ Len(PatternWrites) = remainingSectors
        /\ \A k \in DOMAIN PatternWrites : PatternWrites[k].at = absData + k - 1
        /\ {w.bad[k] : k \in DOMAIN w.bad} = BadSet
        /\ \A k \in 1..(Len(w.bad) - 1) : w.bad[k] < w.bad[k + 1]
        /\ (w.ffErr = "nil") <=> (BadSet = {})
        /\ pc \in {"unwind", "exited"} => proc.retErr = "nil"
        /\ RunReturned => (proc.exit = 0 /\ (BadSet # {} => proc.warned))

\* sectors N and N+2 of a three-sector data area are bad, one by a failed
\* comparison, and the run has ended
C13_Witness ==
    /\ SectorPassEnded
    /\ RunReturned
    /\ w.bad = <<absData, absData + 2>>
    /\ \E k \in DOMAIN wlog : wlog[k].chk = "verification failed"

(* ------------------------ the bytes on the target -------------------- *)

\* the sectors a WriteAt of len bytes touches
sectorsOf(e) == (e.len + 511) \div 512

\* What a WriteAt leaves in sector s, as <<kind, n>>. The FAT buffer (initFAT1216,
\* initFAT32) has the media and end-of-chain entries in its first sector and
\* zeroes after it; checkBadSector fills a sector with byte(sector & 0xFF); a
\* write that failed, or a sector that did not read back as written, holds
\* bytes nobody knows.
writtenSector(k, s) ==
    LET e == wlog[k]
    IN  CASE ~e.ok \/ e.chk \in {"read failed", "verification failed"} -> <<"unknown", k>>
          [] e.ph \in {"boot", "backup"} -> <<"boot", 0>>
          [] e.ph = "fsinfo" -> <<"fsinfo", 0>>
          [] e.ph = "fat1" -> IF s = absFAT1 THEN <<"fat head", 0>> ELSE <<"zero", 0>>
          [] e.ph = "fat2" -> IF s = absFAT2 THEN <<"fat head", 0>> ELSE <<"zero", 0>>
          [] e.ph = "label" -> <<"label", 0>>
          [] e.ph = "pattern" -> <<"pattern", s % 256>>
          [] OTHER -> <<"zero", 0>>

\* the writes to the real target that touch one of the sectors lo..hi-1
writesTouching(lo, hi) ==
    {k \in DOMAIN wlog : /\ wlog[k].sink = "file"
                          /\ wlog[k].at < hi
                          /\ lo < wlog[k].at + sectorsOf(wlog[k])}

\* the bytes of sector s, given the set K of the writes that may touch it:
\* those of the last write to it
diskAmong(K, s) ==
    LET Ks == {k \in K : wlog[k].at <= s /\ s < wlog[k].at + sectorsOf(wlog[k])}
    IN  IF Ks = {} THEN <<"old", s>>
        ELSE writtenSector(CHOOSE k \in Ks : \A m \in Ks : m <= k, s)

\* the bytes of sector s of the real target
diskAt(s) == diskAmong(writesTouching(s, s + 1), s)

\* the two FAT regions hold the same bytes, those of the FAT buffer
FATCopiesIdentical ==
    LET r == g.ReservedSectors
        n == ToInt(ret.fatSecs)
        K == writesTouching(r, r + 2 * n)
    IN  \A j \in 0..(n - 1) :
            LET a == diskAmong(K, r + j)
                b == diskAmong(K, r + n + j)
            IN  a = b /\ a[1] \in {"fat head", "zero"}

\* the FAT #2 phase of a real run has completed
FAT2Done == ~cfg.emulate /\ "fat2" \in ui.phasesDone

\* C14: in a real run, from the moment the FAT #2 phase has completed, the
\* sectors [reserved, reserved+fatSectors) hold the same bytes as the sectors
\* [reserved+fatSectors, reserved+2*fatSectors), and this stays so through the
\* root-directory, label and full-format phases, for every variant.
C14_FATCopiesIdentical == FAT2Done => FATCopiesIdentical

\* the full-format pass of a run has written after FAT #2 and has ended
C14_Witness ==
    /\ FAT2Done
    /\ pc = "complete"
    /\ cfg.full
    /\ \E k \in DOMAIN wlog : wlog[k].ph \in {"pattern", "ft_chunk"} /\ wlog[k].ok
    /\ diskAt(g.ReservedSectors) = <<"fat head", 0>>

(* ------------------- the progress maps, call by call ----------------- *)

\* UI.MarkRange(absStart, sectors) of retrodfrg: sectorMap[i] is indexed without
\* a lower bound, so a range that starts below 0 and is not empty panics at its
\* first index, before anything is marked
UIMarkRangePanics(u, absStart, sectors) ==
    LET end == IF absStart + sectors > u.totalSectors THEN u.totalSectors
               ELSE absStart + sectors
    IN  absStart < end /\ absStart < 0

UIMarkRange(u, absStart, sectors) ==
    LET end == IF absStart + sectors > u.totalSectors THEN u.totalSectors
               ELSE absStart + sectors
        fresh == {x \in absStart..(end - 1) : x \notin u.sectorMap}
    IN  [u EXCEPT !.sectorMap = @ \cup fresh,
                  !.written = @ + Cardinality(fresh),
                  !.curAbs = IF end - 1 >= 0 THEN end - 1 ELSE @]

\* progressTracker.writtenCount()
writtenCount(p) == Cardinality(p.marks)

\* the arguments of the calls: below 0, inside, and past the end of the map
MarkStarts == (0 - 2)..(MaxMarkSectors + 1)
MarkCounts == (0 - 1)..(MaxMarkSectors + 2)

InitMark ==
    /\ pc = "mark"
    /\ inp = [ft |-> FAT12, size |-> 0, heads |-> 0, spt |-> 0, tracks |-> 0]
    /\ g = geom0
    /\ i = 0
    /\ loc = loc0
    /\ ret = ret0
    /\ cfg = cfg0
    /\ tgt = tgt0
    /\ \E n \in 0..MaxMarkSectors :
        /\ pt = newProgressTracker(n)
        /\ ui = [ui0 EXCEPT !.totalSectors = n]
    /\ w = w0
    /\ wlog = <<>>
    /\ sig = "off"
    /\ proc = proc0
    /\ sec = <<>>
    /\ call = call0
    /\ prep = prep0
    /\ cp = cp0

\* one call of pt.markRange
PTMark ==
    /\ pc = "mark"
    /\ \E start \in MarkStarts, count \in MarkCounts :
        pt' = markRange(pt, start, count)
    /\ UNCHANGED <<pc, inp, g, ret, planVars, unitVars, cfg, tgt, ui, w, wlog, sig, proc>>

\* one call of ui.MarkRange; the panic ends the process
UIMark ==
    /\ pc = "mark"
    /\ \E start \in MarkStarts, count \in MarkCounts :
        IF UIMarkRangePanics(ui, start, count)
        THEN pc' = "mark_panic" /\ ui' = ui
        ELSE pc' = pc /\ ui' = UIMarkRange(ui, start, count)
    /\ UNCHANGED <<inp, g, ret, planVars, unitVars, cfg, tgt, pt, w, wlog, sig, proc>>

NextMark ==
    \/ PTMark
    \/ UIMark

SpecMark == InitMark /\ [][NextMark]_vars

\* C15: whatever the start and count of a markRange call (below 0, past the end
\* of the map, empty or negative length), every entry that was marked stays
\* marked, the map never holds an index outside [0, totalSectors), and
\* writtenCount() never exceeds totalSectors; the same for the UI's map and its
\* written counter.
C15_MarksNeverReset ==
    [][/\ pt.marks \subseteq pt'.marks
       /\ pt'.marks \subseteq 0..(pt'.total - 1)
       /\ writtenCount(pt') <= pt'.total
       /\ pt'.total = pt.total
       /\ ui.sectorMap \subseteq ui'.sectorMap
       /\ ui'.written = Cardinality(ui'.sectorMap)
       /\ ui'.written <= ui'.totalSectors]_vars

\* a full map whose last call ended at sector 0: it marked nothing new
C15_Witness ==
    /\ pc = "mark"
    /\ pt.total = MaxMarkSectors
    /\ writtenCount(pt) = pt.total
    /\ pt.currentPos = 0
    /\ ui.written = ui.totalSectors

(* --------------------------- sector builders ------------------------- *)

\* a sector is the sequence of its byte values: offset k of the Go slice is
\* index k + 1 here

\* make([]byte, n)
zeroBytes(n) == [k \in 1..n |-> 0]

\* copy(b[off:lim], src): copies min(lim - off, len(src)) bytes
copyAt(b, off, lim, src) ==
    [k \in 1..Len(b) |->
        IF k > off /\ k <= lim /\ k - off <= Len(src) THEN src[k - off] ELSE b[k]]

\* a 16-bit value encoded with its high byte first
le16_bigEndian(v) == <<v \div 256, v % 256>>
\* binary.LittleEndian.PutUint16 / PutUint32 (a uint32 is <<hi, lo>>)
le16(v) == <<v % 256, v \div 256>>
le32(a) == le16(a[2]) \o le16(a[1])
PutUint16(b, off, v) == copyAt(b, off, off + 2, le16(v))
PutUint32(b, off, a) == copyAt(b, off, off + 4, le32(a))

\* the boot code stub (lines 332-350); the FAT32 stub (lines 398-416) differs in
\* the message offset of its "mov si"
bootCode1216 ==
    <<14, 31, 190, 119, 124, 172, 34, 192, 116, 11, 86, 180, 14, 187, 7, 0,
      205, 16, 94, 235, 240, 50, 228, 205, 22, 205, 25, 235, 254>>
bootCode32 ==
    <<14, 31, 190, 163, 124, 172, 34, 192, 116, 11, 86, 180, 14, 187, 7, 0,
      205, 16, 94, 235, 240, 50, 228, 205, 22, 205, 25, 235, 254>>

\* "Non-system disk or disk error\r\nReplace and press any key when ready\r\n\x00"
bootMsg ==
    <<78, 111, 110, 45, 115, 121, 115, 116, 101, 109, 32, 100, 105, 115, 107, 32,
      111, 114, 32, 100, 105, 115, 107, 32, 101, 114, 114, 111, 114, 13, 10, 82,
      101, 112, 108, 97, 99, 101, 32, 97, 110, 100, 32, 112, 114, 101, 115, 115,
      32, 97, 110, 121, 32, 107, 101, 121, 32, 119, 104, 101, 110, 32, 114, 101,
      97, 100, 121, 13, 10, 0>>

\* the volume serial 0x12345678, the FSInfo signatures and free-count fields
VolumeSerial == <<4660, 22136>>
FSInfoLeadSig == <<16737, 21074>>      \* 0x41615252
FSInfoStrucSig == <<24897, 29298>>     \* 0x61417272
FSInfoFreeUnknown == <<65535, 65535>>  \* 0xFFFFFFFF
FSInfoTrailSig == <<43605, 0>>         \* 0xAA550000

\* a boot sector that lacks the 0x55 0xAA at its end
signBootSector_unsigned(b) == b

\* "sec[510], sec[511] = 0x55, 0xAA"
signBootSector(b) == copyAt(b, 510, 512, <<85, 170>>)

\* buildBootSector1216(ft, g, volLabel, oem)
buildBootSector1216(ft, gm, volLabel, oem) ==
    LET s0  == copyAt(zeroBytes(512), 0, 3, <<235, 60, 144>>)
        s1  == copyAt(s0, 3, 11, oemField(oem))
        s2  == PutUint16(s1, 11, gm.BytesPerSector)
        s3  == copyAt(s2, 13, 14, <<gm.SectorsPerCluster>>)
        s4  == PutUint16(s3, 14, gm.ReservedSectors)
        s5  == copyAt(s4, 16, 17, <<gm.NumFATs>>)
        s6  == PutUint16(s5, 17, gm.RootEntries)
        s7  == PutUint16(s6, 19, gm.TotalSectors16)
        s8  == copyAt(s7, 21, 22, <<gm.Media>>)
        s9  == PutUint16(s8, 22, gm.SectorsPerFAT16)
        s10 == PutUint16(s9, 24, gm.SectorsPerTrack)
        s11 == PutUint16(s10, 26, gm.NumHeads)
        s12 == PutUint32(s11, 28, gm.HiddenSectors)
        s13 == PutUint32(s12, 32, gm.TotalSectors32)
        s14 == copyAt(s13, 36, 39, <<0, 0, 41>>)
        s15 == PutUint32(s14, 39, VolumeSerial)
        s16 == copyAt(s15, 43, 54, labelField(volLabel))
        s17 == copyAt(s16, 54, 62, IF ft = FAT12 THEN StrFAT12 ELSE StrFAT16)
        s18 == copyAt(s17, 62, 512, bootCode1216)
        s19 == copyAt(s18, 119, 512, bootMsg)
    IN  signBootSector(s19)

\* buildBootSector32(g, volLabel, oem)
buildBootSector32(gm, volLabel, oem) ==
    LET s0  == copyAt(zeroBytes(512), 0, 3, <<235, 88, 144>>)
        s1  == copyAt(s0, 3, 11, oemField(oem))
        s2  == PutUint16(s1, 11, gm.BytesPerSector)
        s3  == copyAt(s2, 13, 14, <<gm.SectorsPerCluster>>)
        s4  == PutUint16(s3, 14, gm.ReservedSectors)
        s5  == copyAt(s4, 16, 17, <<gm.NumFATs>>)
        s6  == PutUint16(s5, 17, 0)
        s7  == IF gm.TotalSectors16 # 0 THEN PutUint16(s6, 19, gm.TotalSectors16)
               ELSE s6
        s8  == copyAt(s7, 21, 22, <<gm.Media>>)
        s9  == PutUint16(s8, 22, 0)
        s10 == PutUint16(s9, 24, gm.SectorsPerTrack)
        s11 == PutUint16(s10, 26, gm.NumHeads)
        s12 == PutUint32(s11, 28, gm.HiddenSectors)
        s13 == PutUint32(s12, 32, gm.TotalSectors32)
        s14 == PutUint32(s13, 36, gm.SectorsPerFAT32)
        s15 == PutUint16(s14, 40, 0)
        s16 == PutUint16(s15, 42, 0)
        s17 == PutUint32(s16, 44, gm.RootCluster)
        s18 == PutUint16(s17, 48, gm.FSInfoSector)
        s19 == PutUint16(s18, 50, gm.BackupBootSector)
        s20 == copyAt(s19, 64, 67, <<128, 0, 41>>)
        s21 == PutUint32(s20, 67, VolumeSerial)
        s22 == copyAt(s21, 71, 82, labelField(volLabel))
        s23 == copyAt(s22, 82, 90, StrFAT32)
        s24 == copyAt(s23, 90, 512, bootCode32)
        s25 == copyAt(s24, 163, 512, bootMsg)
    IN  signBootSector(s25)

\* buildFSInfo()
buildFSInfo ==
    LET f0 == PutUint32(zeroBytes(512), 0, FSInfoLeadSig)
        f1 == PutUint32(f0, 484, FSInfoStrucSig)
        f2 == PutUint32(f1, 488, FSInfoFreeUnknown)
        f3 == PutUint32(f2, 492, U(2))
    IN  PutUint32(f3, 508, FSInfoTrailSig)

(* ---------------------- the builders, call by call ------------------- *)

\* the texts of the calls: the first n letters of the alphabet
Letters(n) == [k \in 1..n |-> 64 + k]
BootLabels == {Letters(n) : n \in 0..MaxLabelLen}
BootOEMs == {Letters(n) : n \in 0..MaxOEMLen}

\* a descriptor with every field at the largest value of its type
geomMax ==
    [BytesPerSector |-> 65535, SectorsPerCluster |-> 255, ReservedSectors |-> 65535,
     NumFATs |-> 255, RootEntries |-> 65535, TotalSectors16 |-> 65535, Media |-> 255,
     SectorsPerFAT16 |-> 65535, SectorsPerTrack |-> 65535, NumHeads |-> 65535,
     HiddenSectors |-> <<65535, 65535>>, TotalSectors32 |-> <<65535, 65535>>,
     SectorsPerFAT32 |-> <<65535, 65535>>, RootCluster |-> <<65535, 65535>>,
     FSInfoSector |-> 65535, BackupBootSector |-> 65535]

BootSizes == {Sec1440K, Sec16M, 1048576}

InitBoot ==
    /\ pc = "build"
    /\ inp \in [ft : FATTypes, size : BootSizes, heads : {0}, spt : {0}, tracks : {0}]
    /\ g \in {geomMax} \cup
             (IF presetForSizeBytes(inp.ft, inp.size).err = ""
              THEN {presetForSizeBytes(inp.ft, inp.size).g} ELSE {})
    /\ i = 0
    /\ loc = loc0
    /\ ret = ret0
    /\ \E l \in BootLabels, o \in BootOEMs : cfg = [cfg0 EXCEPT !.label = l, !.oem = o]
    /\ tgt = tgt0
    /\ ui = ui0
    /\ pt = pt0
    /\ w = w0
    /\ wlog = <<>>
    /\ sig = "off"
    /\ proc = proc0
    /\ sec = <<>>
    /\ call = call0
    /\ prep = prep0
    /\ cp = cp0

\* "if ft == FAT32 { boot = buildBootSector32(...) } else { boot =
\* buildBootSector1216(...) }" (lines 1368-1372)
BuildBoot ==
    /\ pc = "build"
    /\ sec' = IF inp.ft = FAT32 THEN buildBootSector32(g, cfg.label, cfg.oem)
              ELSE buildBootSector1216(inp.ft, g, cfg.label, cfg.oem)
    /\ pc' = "built_boot"
    /\ UNCHANGED <<inp, g, ret, planVars, runVars, cp, call, prep>>

\* "fsinfo := buildFSInfo()" (line 1387), FAT32 only
BuildFSInfo ==
    /\ pc \in {"build", "built_boot"}
    /\ inp.ft = FAT32
    /\ sec' = buildFSInfo
    /\ pc' = "built_fsinfo"
    /\ UNCHANGED <<inp, g, ret, planVars, runVars, cp, call, prep>>

NextBoot ==
    \/ BuildBoot
    \/ BuildFSInfo

SpecBoot == InitBoot /\ [][NextBoot]_vars

\* byte k (0-based offset) of the sector built last
byteAt(k) == sec[k + 1]

\* C16: every boot sector the builders return is 512 bytes long, ends in 0x55
\* 0xAA at offsets 510-511 and carries the extended boot signature 0x29 at offset
\* 38 (FAT12/16) or 66 (FAT32), whatever the geometry and however long the label
\* and the OEM string are; the FSInfo sector is 512 bytes long with 0x41615252 at
\* offset 0 and 0x61417272 at offset 484, both little-endian.
C16_SectorSignatures ==
    /\ pc = "built_boot" =>
        /\ Len(sec) = 512
        /\ byteAt(510) = 85 /\ byteAt(511) = 170
        /\ byteAt(IF inp.ft = FAT32 THEN 66 ELSE 38) = 41
    /\ pc = "built_fsinfo" =>
        /\ Len(sec) = 512
        /\ <<byteAt(0), byteAt(1), byteAt(2), byteAt(3)>> = <<82, 82, 97, 65>>
        /\ <<byteAt(484), byteAt(485), byteAt(486), byteAt(487)>> = <<114, 114, 65, 97>>

\* a FAT32 boot sector built from the largest descriptor with a label of more
\* than 11 and an OEM string of more than 8 characters
C16_Witness ==
    /\ pc = "built_boot"
    /\ inp.ft = FAT32
    /\ g = geomMax
    /\ Len(cfg.label) > 11
    /\ Len(cfg.oem) > 8
    /\ byteAt(3) = 65 /\ byteAt(10) = 72 /\ byteAt(81) = 75

(* ===================================================================== *)
(* The total-sector fields (checked under Spec)                          *)
(* ===================================================================== *)

\* the total sector count the run asked for: cylinders * heads * sectors per
\* track with a cylinders override, the size in sectors without
requestedTotal ==
    IF inp.tracks > 0
    THEN MulK32(MulK32(U(inp.tracks), g.NumHeads), g.SectorsPerTrack)
    ELSE U(inp.size)

\* C17: for every geometry the planner accepts, with or without a cylinders
\* override, exactly one of TotalSectors16 and TotalSectors32 is non-zero, and it
\* is the 16-bit field exactly when the total sector count is <= 65535.
C17_OneTotalField ==
    PlanSuccess =>
        /\ (g.TotalSectors16 # 0) # (g.TotalSectors32 # Z32)
        /\ (g.TotalSectors16 # 0) <=> Le32(requestedTotal, <<0, 65535>>)

(* ===================================================================== *)
(* Rejected runs and emulated runs (checked under SpecRun)               *)
(* ===================================================================== *)

\* the planner refuses the run's geometry: presetForSizeBytes or computeLayout
PlannerError ==
    \/ presetForSizeBytes(inp.ft, inp.size).err # ""
    \/ ret.err \notin {"none", ""}

\* nothing of the target was touched: no file created or truncated, no device
\* opened or locked, no handle to close
TargetUntouched == tgt = tgt0

\* C18: a format run that is rejected for its configuration (both targets, no
\* target without --emulate, --device without --force, size missing, unparsable
\* or not a multiple of 512, unknown type) or by the planner has created or
\* truncated no file, opened or locked no device and issued no write - at the
\* moment it is rejected and up to its exit.
C18_RejectedBeforeTarget ==
    (cfg.cmd = "format" /\ (validateError # "" \/ PlannerError))
        => (TargetUntouched /\ wlog = <<>>)

\* a run with --out that computeLayout refused and that has exited with 2
C18_Witness ==
    /\ RunReturned
    /\ cfg.out
    /\ validateError = ""
    /\ ret.err \notin {"none", ""}
    /\ proc.exit = ExitFailure

\* C20: in emulate mode the run never creates, opens, truncates or writes a
\* file or device, also when --out or --device is given: every write of every
\* phase goes to the nullWriter and succeeds in full, and no sector of the
\* target changes.
C20_EmulateTouchesNothing ==
    (cfg.cmd = "format" /\ cfg.emulate) =>
        /\ TargetUntouched
        /\ \A k \in DOMAIN wlog : wlog[k].sink = "null" /\ wlog[k].ok
        /\ writesTouching(0, totalSectors) = {}

\* an emulated run with --device --force that went through its phases up to
\* the data area and has exited
C20_Witness ==
    /\ cfg.emulate
    /\ cfg.device
    /\ RunReturned
    /\ proc.exit = 0
    /\ \E k \in DOMAIN wlog : wlog[k].ph = "emu_data"
    /\ \E k \in DOMAIN wlog : wlog[k].ph = "emu_boot" /\ wlog[k].len = 512

(* ===================================================================== *)
(* The device-size check (checked under SpecRun)                         *)
(* ===================================================================== *)

\* the size the run needs on the device, in bytes: sz for format, the size of
\* the image for img2dev
requestedSize == IF cfg.cmd = "format" THEN sz ELSE cp.imageSize

\* no write was issued to the device
NoDeviceWrite == wlog = <<>> /\ cp.writes = <<>>

\* a run that ended without a write although the size check let it through:
\* what else can end it that early
EndedBeforeFirstWrite ==
    \/ proc.exit = ExitInterrupted
    \/ proc.retErr \in {"low-level format not available", "read image"}
    \/ cfg.cmd = "img2dev" /\ (cp.imageSize = 0 \/ cp.eof)

\* C19: when the probed device size is positive and smaller than the requested
\* size, the format run, and copyImageToDevice for the image size, fails with
\* "device too small" before any write to the device; when it is larger the run
\* prints the size warning and goes on to write; when it is equal the run goes
\* on without a size warning.
C19_DeviceSizeCheck ==
    (tgt.probed /\ tgt.deviceSize > 0) =>
        /\ tgt.deviceSize < requestedSize =>
              /\ proc.retErr = "device too small"
              /\ NoDeviceWrite
        /\ tgt.deviceSize > requestedSize =>
              /\ proc.sizeWarning = "device is larger"
              /\ proc.retErr # "device too small"
              /\ (RunReturned /\ NoDeviceWrite) => EndedBeforeFirstWrite
        /\ tgt.deviceSize = requestedSize =>
              /\ proc.sizeWarning = ""
              /\ proc.retErr # "device too small"
              /\ (RunReturned /\ NoDeviceWrite) => EndedBeforeFirstWrite

\* a format run on a device one sector short that has exited with 2
C19_Witness ==
    /\ cfg.cmd = "format"
    /\ tgt.probed
    /\ tgt.deviceSize = sz - 512
    /\ RunReturned
    /\ proc.exit = ExitFailure
    /\ tgt.state = "closed"

(* ===================================================================== *)
(* The boot sector against the layout (checked under Spec)               *)
(* ===================================================================== *)

\* binary.LittleEndian.Uint16 / Uint32 of the bytes at offset off
decode16(b, off) == b[off + 1] + 256 * b[off + 2]
decode32(b, off) == <<decode16(b, off + 2), decode16(b, off)>>

\* the boot sector the run writes for the planned geometry (lines 1368-1372),
\* with the flags' default texts
plannedBootSector ==
    IF inp.ft = FAT32 THEN buildBootSector32(g, <<>>, DefaultOEM)
    ELSE buildBootSector1216(inp.ft, g, <<>>, DefaultOEM)

\* sectors per FAT as a reader decodes it from the boot sector
bootSectorsPerFAT ==
    IF inp.ft = FAT32 THEN decode32(plannedBootSector, 36)
    ELSE U(decode16(plannedBootSector, 22))

\* C21: whenever the planner returns success, the sectors-per-FAT value left in
\* the geometry and encoded in the boot sector (offset 22 for FAT12/16, offset 36
\* for FAT32) equals the FAT sector count computeLayout returned, which the
\* write pipeline uses to size the FAT copies and to place FAT #2, the root
\* directory and the data area.
C21_BootFATSizeMatchesLayout ==
    PlanSuccess =>
        /\ bootSectorsPerFAT = ret.fatSecs
        /\ (IF inp.ft = FAT32 THEN g.SectorsPerFAT32 ELSE U(g.SectorsPerFAT16))
              = ret.fatSecs

(* ===================================================================== *)
(* The data area after the sector pass (checked under SpecRun)           *)
(* ===================================================================== *)

\* the sector holds only zero bytes: zero-filled, or filled with the pattern
\* byte of a sector number that is a multiple of 256
onlyZeroBytes(c) == c = <<"zero", 0>> \/ c = <<"pattern", 0>>

\* C22: after a full-format pass in sector sync mode completes on a target with
\* no bad sectors, every data-area sector of the target - for FAT32 including
\* the first one, which holds the root-directory cluster - contains only zero
\* bytes.
C22_DataAreaZeroed ==
    (SectorPassEnded /\ w.ffErr = "nil") =>
        \A s \in absData..(totalSectors - 1) : onlyZeroBytes(diskAt(s))

(* ===================================================================== *)
(* A stop seen by a structure phase (checked under SpecRun)              *)
(* ===================================================================== *)

\* the phases that write the structures of the volume (lines 1364-1462)
StructurePhases == {"boot", "fsinfo", "backup", "fat1", "fat2", "root", "firstdata"}

\* the chunk writes of a structure phase of a real run after which the helper
\* found the stop flag set (lines 653-655, 690-692)
StopSeenWrites ==
    {k \in DOMAIN wlog : /\ wlog[k].sink = "file"
                         /\ wlog[k].ph \in StructurePhases
                         /\ wlog[k].ok
                         /\ wlog[k].stop}

\* C23: in a real run, when a structure phase (boot sector, FSInfo, backup boot
\* sector, FAT #1, FAT #2, root zeroing, FAT32 first data sector) finds the stop
\* flag set after a chunk write, no write of that or of any later phase follows
\* (the label entry and the full-format pass included), and when RunE returns
\* it returns the Interrupted result.
C23_StopInStructurePhase ==
    \A k \in StopSeenWrites :
        /\ k = Len(wlog)
        /\ RunReturned => proc.retErr = "interrupted"

(* ===================================================================== *)
(* Writes and the size of the image file (checked under SpecRun)         *)
(* ===================================================================== *)

\* the writes issued to the image file of a real run (--out; lines 1283-1296)
ImageWrites == {k \in DOMAIN wlog : cfg.out /\ wlog[k].sink = "file"}

\* C24: in a real run to an image file, for every accepted geometry (a
\* --heads/--spt/--tracks override included), every write lies within the
\* requested size: it ends at or before byte sz, the length the file was
\* truncated to.
C24_WritesInsideImage ==
    \A k \in ImageWrites : wlog[k].at * 512 + wlog[k].len <= sz

(* ===================================================================== *)
(* The sector map and the geometry (checked under SpecRun)               *)
(* ===================================================================== *)

\* the progress tracker has been made (line 1152; the same step of RunE opens
\* the UI, which is never again in its initial state)
TrackerMade == ui.state # ui0.state

\* the sectors of the successful writes to the target
WrittenSectors ==
    UNION {wlog[k].at .. (wlog[k].at + sectorsOf(wlog[k]) - 1) :
              k \in {j \in DOMAIN wlog : wlog[j].ok /\ wlog[j].sink = "file"}}

\* C25: the sector map of a run has exactly as many entries as the total sector
\* count of the accepted geometry (the value encoded in the boot sector), also
\* under a --heads/--spt/--tracks override, and when RunE has returned every
\* sector that was successfully written has a marked entry in it.
C25_MapCoversGeometry ==
    TrackerMade => /\ U(pt.total) = totalSectorsOf(g)
                   /\ RunReturned => WrittenSectors \subseteq pt.marks

(* ===================================================================== *)
(* Sync calls of the full-format pass (checked under SpecRun)            *)
(* ===================================================================== *)

\* the full-format pass went over all its sectors and returned nil
\* (fullFormatDataArea line 836, fullFormatTrack line 2097)
PassCompleted == pc = "ff_return" /\ w.ffErr = "nil"

\* the tracks of the data area: ceil(N / spt)
dataTracks == (remainingSectors + trackSectors - 1) \div trackSectors

\* C26: the number of Sync calls made during a completed full-format pass over
\* the N data sectors is N in sync mode "sector", ceil(N / sectors per track)
\* in mode "track", exactly one (at the end) in mode "phase", and zero in mode
\* "none".
C26_SyncCounts ==
    PassCompleted =>
        w.syncs = CASE cfg.sync = "sector" -> remainingSectors
                    [] cfg.sync = "track" -> dataTracks
                    [] cfg.sync = "phase" -> 1
                    [] OTHER -> 0

(* ===================================================================== *)
(* The write helpers called on their own (SpecSpan)                      *)
(* ===================================================================== *)

\* the longest buffer has this many full chunks, and one sector more
MaxSpanChunks == 2

\* "const chunk = 1 << 20" (line 637), "const zSize = 1 << 20" (line 673)
MiB == ChunkSectors * 512

\* buffer lengths in sectors: empty, short, and around each multiple of a chunk
SpanLengths ==
    {0, 1, 2} \cup {c * ChunkSectors + d : c \in 1..MaxSpanChunks, d \in {-1, 0, 1}}

\* start sectors of the span
SpanStarts == {0, 1, 3, ChunkSectors}

\* lengths of the sector map: empty, shorter than a span, ending inside the
\* second chunk, longer than every span
SpanTotals == {0, 2, ChunkSectors + 1, (MaxSpanChunks + 2) * ChunkSectors}

\* a call of writeSpanWithStatus ("wspan") or of zeroSpanWithStatus ("zspan")
\* with an open UI and a new tracker
InitSpan ==
    /\ pc = "span_call"
    /\ inp = [ft |-> FAT12, size |-> 0, heads |-> 0, spt |-> 0, tracks |-> 0]
    /\ g = geom0
    /\ i = 0
    /\ loc = loc0
    /\ ret = ret0
    /\ cfg = cfg0
    /\ tgt = tgt0
    /\ ui = [ui0 EXCEPT !.state = "open"]
    /\ \E n \in SpanTotals : pt = newProgressTracker(n)
    /\ w = w0
    /\ wlog = <<>>
    /\ sig = "off"
    /\ proc = proc0
    /\ sec = <<>>
    /\ cp = cp0
    /\ call \in [helper : {"wspan", "zspan"}, absStart : SpanStarts,
                 sectors : SpanLengths]
    /\ prep = prep0

\* lines 638-640, 674-678: the locals, and the loop condition before the first pass
SpanEnter ==
    /\ pc = "span_call"
    /\ pc' = IF 0 < call.sectors THEN "span" ELSE "span_done"
    /\ UNCHANGED <<inp, g, ret, planVars, unitVars, runVars>>

\* lines 640-663, 678-701: one pass of the loop, and what the helper does next
SpanChunk ==
    /\ pc = "span"
    /\ \E ok \in BOOLEAN :
        /\ spanPass(call.helper, "file", call.absStart, call.sectors, ok)
        /\ LET r == spanResult(call.sectors, ok)
           IN  pc' = CASE r = "more" -> "span"
                       [] r = "done" -> "span_done"
                       [] r = "error" -> "span_error"
                       [] OTHER -> "span_interrupted"
    /\ UNCHANGED <<inp, g, ret, planVars, unitVars, cfg, tgt, ui, sig, proc>>

NextSpan ==
    \/ SpanEnter
    \/ SpanChunk
    \/ UIKey

SpecSpan == InitSpan /\ [][NextSpan]_vars

\* the bytes of the first k WriteAt calls
RECURSIVE bytesIssued(_)
bytesIssued(k) == IF k = 0 THEN 0 ELSE bytesIssued(k - 1) + wlog[k].len

\* C27: for a buffer of any length that is a multiple of 512 and any start
\* sector, when writeSpanWithStatus returns nil (no write error, no stop seen)
\* it has issued WriteAt calls of at most 1 MiB each, the k-th at byte offset
\* absStart*512 plus the bytes of the calls before it and carrying the bytes of
\* the buffer from there on, so that the calls are contiguous, strictly
\* increasing and cover the buffer exactly once; zeroSpanWithStatus does the
\* same with sectors*512 zero bytes; and the marked entries of the sector map
\* are exactly the sectors of [absStart, absStart + length/512) inside the map.
C27_SpanChunks ==
    pc = "span_done" =>
        /\ \A k \in DOMAIN wlog :
            /\ wlog[k].ok
            /\ wlog[k].ph = call.helper
            /\ wlog[k].len \in 1..MiB
            /\ wlog[k].at * 512 = call.absStart * 512 + bytesIssued(k - 1)
        /\ bytesIssued(Len(wlog)) = call.sectors * 512
        /\ pt.marks = {s \in call.absStart .. (call.absStart + call.sectors - 1) :
                          s < pt.total}

\* a buffer of more than MaxSpanChunks chunks has been written in full, its
\* last chunk a short one, over the end of the sector map
C27_Witness ==
    /\ pc = "span_done"
    /\ Len(wlog) = MaxSpanChunks + 1
    /\ wlog[Len(wlog)].len < MiB
    /\ call.absStart + call.sectors > pt.total
    /\ pt.marks # {}

(* ===================================================================== *)
(* prepareWindowsDevice (SpecPrep)                                       *)
(* ===================================================================== *)

\* the handles CreateFile may return: MaxHandles non-zero values
MaxHandles == 2
Handles == {4 * k : k \in 1..MaxHandles}

\* Windows error codes DeviceIoControl may leave: ERROR_SUCCESS,
\* ERROR_ACCESS_DENIED, ERROR_WRITE_PROTECT, ERROR_LOCK_VIOLATION, and the two
\* the function tests for
ERROR_NOT_SUPPORTED == 50
ERROR_NOT_LOCKED == 158
WinErrors == {0, 5, 19, 33, ERROR_NOT_SUPPORTED, ERROR_NOT_LOCKED}

\* the characters of the device paths: \ . : A Z a P and the rest of
\* "PhysicalDrive0"
ChBackslash == 92
ChDot == 46
ChColon == 58
DevicePrefix == <<ChBackslash, ChBackslash, ChDot, ChBackslash>>

\* \\.\A:  \\.\Z:  \\.\a:  \\.\PhysicalDrive0  A:  C:\x\y.img  \\.\A
PrepPaths ==
    {DevicePrefix \o <<65, ChColon>>,
     DevicePrefix \o <<90, ChColon>>,
     DevicePrefix \o <<97, ChColon>>,
     DevicePrefix \o <<80, 104, 121, 115, 105, 99, 97, 108, 68, 114, 105, 118, 101, 48>>,
     <<65, ChColon>>,
     <<67, ChColon, ChBackslash, 120, ChBackslash, 121, ChDot, 105, 109, 103>>,
     DevicePrefix \o <<65>>}

\* strings.HasPrefix(devicePath, `\\.\`)
HasDevicePrefix(p) == Len(p) >= 4 /\ SubSeq(p, 1, 4) = DevicePrefix

\* lines 115-121: the path is not one the function handles
prepSkips(p) ==
    \/ Len(p) < 6
    \/ ~HasDevicePrefix(p)
    \/ p[5] < 65
    \/ p[5] > 90

\* line 123: volumePath := `\\.\` + driveLetter + `:`
volumePath(p) == DevicePrefix \o <<p[5], ChColon>>

\* "return h, err" of prepareWindowsDevice
prepReturn(p, h, err) == [p EXCEPT !.handle = h, !.err = err]

InitPrep ==
    /\ pc = "prep_call"
    /\ inp = [ft |-> FAT12, size |-> 0, heads |-> 0, spt |-> 0, tracks |-> 0]
    /\ g = geom0
    /\ i = 0
    /\ loc = loc0
    /\ ret = ret0
    /\ cfg = cfg0
    /\ tgt = tgt0
    /\ ui = ui0
    /\ pt = pt0
    /\ w = w0
    /\ wlog = <<>>
    /\ sig = "off"
    /\ proc = proc0
    /\ sec = <<>>
    /\ cp = cp0
    /\ call = call0
    /\ \E p \in PrepPaths : prep = [prep0 EXCEPT !.path = p]

\* what the other variables do during prepareWindowsDevice: nothing
prepOnly == UNCHANGED <<inp, g, ret, planVars, runVars, sec, cp, call>>

\* lines 115-123
PrepPath ==
    /\ pc = "prep_call"
    /\ IF prepSkips(prep.path)
       THEN pc' = "prep_ret" /\ prep' = prepReturn(prep, 0, "")
       ELSE pc' = "prep_open" /\ prep' = [prep EXCEPT !.volumePath = volumePath(prep.path)]
    /\ prepOnly

\* lines 126-137: CreateFile on the volume path, no sharing
PrepOpen ==
    /\ pc = "prep_open"
    /\ \E h \in Handles \cup {0} :
        IF h = 0
        THEN /\ pc' = "prep_ret"
             /\ prep' = prepReturn([prep EXCEPT !.ops =
                                       Append(@, [op |-> "open", ok |-> FALSE, e |-> 0])],
                                   0, "cannot open volume")
        ELSE /\ pc' = "prep_lock"
             /\ prep' = [prep EXCEPT !.volHandle = h,
                                     !.ops = Append(@, [op |-> "open", ok |-> TRUE, e |-> 0])]
    /\ prepOnly

\* lines 143-160: FSCTL_LOCK_VOLUME
PrepLock ==
    /\ pc = "prep_lock"
    /\ \E ok \in BOOLEAN, lastErr \in WinErrors :
        LET ops1 == Append(prep.ops, [op |-> "lock", ok |-> ok, e |-> lastErr])
        IN  IF ~ok
            THEN /\ pc' = "prep_ret"
                 /\ prep' = prepReturn(
                        [prep EXCEPT !.ops = Append(ops1, [op |-> "close", ok |-> TRUE, e |-> 0])],
                        0,
                        IF lastErr = ERROR_NOT_SUPPORTED THEN "" ELSE "cannot lock volume")
            ELSE /\ pc' = "prep_dismount"
                 /\ prep' = [prep EXCEPT !.ops = ops1]
    /\ prepOnly

\* a failed dismount that closes the handle without unlocking the volume
PrepDismount_noUnlock ==
    /\ pc = "prep_dismount"
    /\ \E ok \in BOOLEAN, lastErr \in WinErrors :
        LET ops1 == Append(prep.ops, [op |-> "dismount", ok |-> ok, e |-> lastErr])
        IN  /\ pc' = "prep_ret"
            /\ prep' = IF ~ok
                       THEN prepReturn(
                              [prep EXCEPT !.ops = ops1 \o
                                  <<[op |-> "close", ok |-> TRUE, e |-> 0]>>],
                              0,
                              IF lastErr # ERROR_NOT_SUPPORTED /\ lastErr # ERROR_NOT_LOCKED
                              THEN "cannot dismount volume" ELSE "")
                       ELSE prepReturn([prep EXCEPT !.ops = ops1], prep.volHandle, "")
    /\ prepOnly

\* lines 163-194: FSCTL_DISMOUNT_VOLUME; on failure FSCTL_UNLOCK_VOLUME (its
\* result is not looked at) and CloseHandle
PrepDismount ==
    /\ pc = "prep_dismount"
    /\ \E ok \in BOOLEAN, lastErr \in WinErrors :
        LET ops1 == Append(prep.ops, [op |-> "dismount", ok |-> ok, e |-> lastErr])
        IN  /\ pc' = "prep_ret"
            /\ IF ~ok
               THEN \E unlocked \in BOOLEAN :
                        prep' = prepReturn(
                              [prep EXCEPT !.ops = ops1 \o
                                  <<[op |-> "unlock", ok |-> unlocked, e |-> 0],
                                    [op |-> "close", ok |-> TRUE, e |-> 0]>>],
                              0,
                              IF lastErr # ERROR_NOT_SUPPORTED /\ lastErr # ERROR_NOT_LOCKED
                              THEN "cannot dismount volume" ELSE "")
               ELSE prep' = prepReturn([prep EXCEPT !.ops = ops1], prep.volHandle, "")
    /\ prepOnly

NextPrep ==
    \/ PrepPath
    \/ PrepOpen
    \/ PrepLock
    \/ PrepDismount

SpecPrep == InitPrep /\ [][NextPrep]_vars

\* the positions in prep.ops of the calls of one kind, and of the successful ones
opsOf(kind) == {k \in DOMAIN prep.ops : prep.ops[k].op = kind}
okOps(kind) == {k \in opsOf(kind) : prep.ops[k].ok}
failedOps(kind) == opsOf(kind) \ okOps(kind)

\* C28: when prepareWindowsDevice has returned: the volume handle returned is
\* non-zero only if both the lock and the dismount succeeded; on every other
\* outcome the handle it opened has been closed exactly once, and if the lock
\* had been acquired an unlock was issued before that close; a lock failure
\* with "not supported" and a dismount failure with "not supported" or "not
\* locked" return no error, any other lock or dismount failure returns an error.
C28_PrepareWindowsDevice ==
    pc = "prep_ret" =>
        /\ prep.handle # 0 => okOps("lock") # {} /\ okOps("dismount") # {}
        /\ (prep.handle = 0 /\ okOps("open") # {}) =>
              /\ Cardinality(opsOf("close")) = 1
              /\ okOps("lock") # {} =>
                    \E u \in opsOf("unlock") : \A c \in opsOf("close") : u < c
        /\ \A k \in failedOps("lock") :
              (prep.err = "") = (prep.ops[k].e = ERROR_NOT_SUPPORTED)
        /\ \A k \in failedOps("dismount") :
              (prep.err = "") = (prep.ops[k].e \in {ERROR_NOT_SUPPORTED, ERROR_NOT_LOCKED})

\* the lock was acquired, the dismount failed with "not locked", and the
\* function returned no handle and no error
C28_Witness ==
    /\ pc = "prep_ret"
    /\ okOps("lock") # {}
    /\ \E k \in failedOps("dismount") : prep.ops[k].e = ERROR_NOT_LOCKED
    /\ prep.handle = 0
    /\ prep.err = ""
    /\ opsOf("close") # {}

(* ===================================================================== *)
(* The one-shot stop flag (checked under SpecRun)                        *)
(* ===================================================================== *)

\* C29: RequestStop may be called any number of times and from the signal
\* thread as well as from the UI, in any interleaving with the writer: the
\* stop flag, once set, stays set (IsStopped is true forever after the first
\* RequestStop), and no RequestStop call panics, a call made after Close has
\* run included (a signal arriving after the UI was closed at the end of the
\* run).
C29_StopIsOneShot ==
    [][/\ ui.stopped => ui'.stopped
       /\ sig' # "panicked"]_vars

(* ===================================================================== *)
(* Decoding the boot sector (checked under SpecBoot)                     *)
(* ===================================================================== *)

\* the string a text field of n bytes at offset off must show: the first n
\* characters of s, then spaces
showsText(off, n, s) ==
    \A k \in 1..n : byteAt(off + k - 1) = (IF k <= Len(s) THEN s[k] ELSE 32)

\* C30: decoding the little-endian fields of a boot sector the builders return
\* gives back the geometry it was built from: bytes/sector at offset 11,
\* sectors/cluster at 13, reserved sectors at 14, FAT count at 16, root entries
\* at 17, 16-bit total at 19, media at 21, 16-bit sectors/FAT at 22,
\* sectors/track at 24, heads at 26, hidden sectors at 28, 32-bit total at 32,
\* and for FAT32 the 32-bit sectors/FAT at 36, root cluster at 44, FSInfo sector
\* at 48 and backup boot sector at 50, with zero at offsets 17 and 22; the OEM
\* field (offset 3, 8 bytes) and the label field (offset 43 or 71, 11 bytes,
\* "NO NAME    " by default) hold their text cut or padded with spaces, and
\* neither they nor the boot stub and the boot message overwrite a field or the
\* 0x55 0xAA signature, for any label or OEM length.
C30_BootFieldsDecode ==
    pc = "built_boot" =>
        /\ decode16(sec, 11) = g.BytesPerSector
        /\ byteAt(13) = g.SectorsPerCluster
        /\ decode16(sec, 14) = g.ReservedSectors
        /\ byteAt(16) = g.NumFATs
        /\ decode16(sec, 19) = g.TotalSectors16
        /\ byteAt(21) = g.Media
        /\ decode16(sec, 24) = g.SectorsPerTrack
        /\ decode16(sec, 26) = g.NumHeads
        /\ decode32(sec, 28) = g.HiddenSectors
        /\ decode32(sec, 32) = g.TotalSectors32
        /\ IF inp.ft = FAT32
           THEN /\ decode16(sec, 17) = 0
                /\ decode16(sec, 22) = 0
                /\ decode32(sec, 36) = g.SectorsPerFAT32
                /\ decode32(sec, 44) = g.RootCluster
                /\ decode16(sec, 48) = g.FSInfoSector
                /\ decode16(sec, 50) = g.BackupBootSector
           ELSE /\ decode16(sec, 17) = g.RootEntries
                /\ decode16(sec, 22) = g.SectorsPerFAT16
        /\ showsText(3, 8, IF cfg.oem = <<>> THEN DefaultOEM ELSE cfg.oem)
        /\ showsText(IF inp.ft = FAT32 THEN 71 ELSE 43, 11,
                     IF cfg.label = <<>> THEN NoName ELSE cfg.label)
        /\ byteAt(510) = 85
        /\ byteAt(511) = 170

\* a FAT16 boot sector of the largest descriptor, built with a label and an OEM
\* string longer than their fields, decodes to 65535 sectors per FAT
C30_Witness ==
    /\ pc = "built_boot"
    /\ inp.ft = FAT16
    /\ g = geomMax
    /\ Len(cfg.label) = MaxLabelLen
    /\ Len(cfg.oem) = MaxOEMLen
    /\ decode16(sec, 22) = 65535
    /\ decode32(sec, 32) = <<65535, 65535>>

====
